---- MODULE Spec2Model ----
(***************************************************************************)
(* Model of the RTSS shared-memory integration of LilPowerMan:             *)
(*   src/src/rtss.rs                 the facade Rtss (update, Drop)        *)
(*   src/src/rtss/shared_memory.rs   open, map, lock, scan, write          *)
(*   src/src/rtss/bindings.rs        the layout of the shared structures   *)
(*                                                                         *)
(* Bytes are natural numbers (ASCII codes), byte buffers are sequences of  *)
(* fixed length.  The buffers of an OSD entry are scaled down (their real  *)
(* widths are 256, 256, 4096 and 262144 bytes); the widths are the bounds  *)
(* OsdLen, OsdOwnerLen, OsdExLen and BufferLen below.                      *)
(***************************************************************************)
EXTENDS Integers, Sequences, FiniteSets, TLC

\* ------------------------------------------------------------------ bounds
\* Number of OSD entries the mapped memory can hold (indices 0..MaxSlots-1).
MaxSlots == 4
\* Scaled widths of RtssSharedMemoryOsdEntry's buffers (bindings.rs:55-68).
OsdLen == 1
OsdOwnerLen == 12
OsdExLen == 2
BufferLen == 1
\* Inputs of the string_to_mem harness (SpecStr).
MaxStrLen == 3
MaxMemLen == 3
\* The lock on its own (SpecLock): the participants, and the critical
\* sections each of them enters.
MaxProcs == 3
MaxTurns == 3
\* Versioned on its own (SpecVer): the width of the version number in bits
\* (64 in the program), the length of the contents, and how far the calls
\* of deref_mut and deref since the clone are counted.
VersionBits == 2
MaxPush == 2
MaxBumps == 2
MaxDerefs == 2
\* FileLogger on its own (SpecLog): MAX_LOG_FILES (logging.rs:21), scaled
\* down from 10, and the records logged.
MaxLogFiles == 3
MaxRecords == 2
\* FileLogger with several threads (SpecMt): the threads, and the calls of
\* flush; MaxRecords bounds the records the threads log themselves.
MaxThreads == 2
MaxFlushes == 1
\* The controller's TDP on its own (SpecTdp): MAX_RECENT_APPLICATIONS
\* (controller.rs:23), scaled down from 5.
MaxRecent == 1
\* The text of the charge rate on its own (SpecFmt): charge rates of
\* -MaxRate..MaxRate milliwatts, and the two extremes of i32.
MaxRate == 1100

\* --------------------------------------------------------------- constants
\* shared_memory.rs:15   0x0002000e
RTSS_MIN_SUPPORTED_VERSION == 131086
\* size_of::<RtssSharedMemory>(): ten 4-byte fields (bindings.rs:8-47)
HeaderSize == 40
\* windows::Win32::Foundation::ERROR_FILE_NOT_FOUND (shared_memory.rs:9)
ERROR_FILE_NOT_FOUND == 2

\* shared_memory.rs:16   "LilPowerMan"
OWNER_SIGNATURE == <<76, 105, 108, 80, 111, 119, 101, 114, 77, 97, 110>>
\* bindings.rs:49   ['S', 'S', 'T', 'R']
RTSS_SIGNATURE == <<83, 83, 84, 82>>
\* bindings.rs:12-13: 0xDEAD marks memory being deallocated (little endian)
DeadSignature == <<173, 222, 0, 0>>
\* bindings.rs:14: anything else, here zeroes: memory not initialized
NoSignature == <<0, 0, 0, 0>>

\* size_of::<RtssSharedMemoryOsdEntry>() with the scaled widths
EntrySize == OsdLen + OsdOwnerLen + OsdExLen + BufferLen

Min(a, b) == IF a < b THEN a ELSE b

Zeros(n) == [k \in 1..n |-> 0]

\* A byte string padded with zero bytes (or cut) to a buffer of n bytes.
Padded(s, n) == [k \in 1..n |-> IF k <= Len(s) THEN s[k] ELSE 0]

\* ------------------------------------------------------- pure functions

\* shared_memory.rs:90-93: the bytes before the first zero byte, or all of
\* them when there is none.
string_from_mem(mem) ==
  LET nul == {k \in 1..Len(mem) : mem[k] = 0}
      len == IF nul = {} THEN Len(mem)
             ELSE CHOOSE k \in nul : \A j \in nul : k <= j
  IN  IF nul = {} THEN mem ELSE SubSeq(mem, 1, len - 1)

\* shared_memory.rs:97-105.  The new contents of the buffer and the result.
string_to_mem_bug(s, mem) ==
  LET len == Min(Len(s), Len(mem))
  IN  [mem |-> [k \in 1..Len(mem) |->
                  IF k <= len THEN s[k]
                  ELSE IF k = len + 1 THEN 0
                  ELSE mem[k]],
       fit |-> Len(s) <= Len(mem)]

string_to_mem(s, mem) ==
  LET len == Min(Len(s), Len(mem))
  IN  [mem |-> [k \in 1..Len(mem) |->
                  IF k <= len THEN s[k]
                  ELSE IF k = len + 1 /\ len < Len(mem) THEN 0
                  ELSE mem[k]],
       fit |-> Len(s) < Len(mem)]

\* format!("{}", n) for an unsigned number: its decimal digits.
RECURSIVE Decimal(_)
Decimal(n) ==
  IF n < 10 THEN <<48 + n>> ELSE Decimal(n \div 10) \o <<48 + (n % 10)>>

\* shared_memory.rs:152: format!("{}.{}", version >> 16, version & 0xFFFF)
VersionString_bug(version) ==
  Decimal(version \div 65536) \o <<46>> \o Decimal(version % 256)

VersionString(version) ==
  Decimal(version \div 65536) \o <<46>> \o Decimal(version % 65536)

\* rtss.rs:16-23: the values of Error and Ok(()), as records.
Ok == [tag |-> "Ok", arg |-> <<>>]
RtssV2NotRunning == [tag |-> "RtssV2NotRunning", arg |-> <<>>]
RtssVersionNotSupported(v) == [tag |-> "RtssVersionNotSupported", arg |-> v]
UnexpectedMemoryLayout == [tag |-> "UnexpectedMemoryLayout", arg |-> <<>>]
NoEmptyOsdSlots == [tag |-> "NoEmptyOsdSlots", arg |-> <<>>]
EntryOverflow == [tag |-> "EntryOverflow", arg |-> <<>>]
WindowsError(code) == [tag |-> "WindowsError", arg |-> <<code>>]
\* No result yet.
NoResult == [tag |-> "None", arg |-> <<>>]


\* shared_memory.rs:61-67: the error open_shared_memory makes of a failure of
\* OpenFileMappingW with the Win32 error `code`.
OpenError_bug(code) ==
  IF code = ERROR_FILE_NOT_FOUND THEN WindowsError(code) ELSE RtssV2NotRunning

OpenError(code) ==
  IF code = ERROR_FILE_NOT_FOUND THEN RtssV2NotRunning ELSE WindowsError(code)

\* shared_memory.rs:116-160: the result of SharedMemoryView::from_file.
\* mapErr / queryErr: 0, or the Win32 error of a failed MapViewOfFile /
\* VirtualQuery; size: the RegionSize VirtualQuery reports; signature and
\* version: the header fields of the mapped memory.
FromFile_bug(mapErr, queryErr, size, signature, version) ==
  IF mapErr # 0 THEN WindowsError(mapErr)
  ELSE IF queryErr # 0 THEN WindowsError(queryErr)
  ELSE IF version < RTSS_MIN_SUPPORTED_VERSION
    THEN RtssVersionNotSupported(VersionString(version))
  ELSE IF signature # RTSS_SIGNATURE THEN RtssV2NotRunning
  ELSE IF size < HeaderSize THEN UnexpectedMemoryLayout
  ELSE Ok

FromFile(mapErr, queryErr, size, signature, version) ==
  IF mapErr # 0 THEN WindowsError(mapErr)
  ELSE IF queryErr # 0 THEN WindowsError(queryErr)
  ELSE IF size < HeaderSize THEN UnexpectedMemoryLayout
  ELSE IF signature # RTSS_SIGNATURE THEN RtssV2NotRunning
  ELSE IF version < RTSS_MIN_SUPPORTED_VERSION
    THEN RtssVersionNotSupported(VersionString(version))
  ELSE Ok

\* ------------------------------------------------------------ the entries

\* bindings.rs:53-69: an OSD entry, its four buffers.
Entry(osd, owner, ex, buffer) ==
  [osd |-> osd, osd_owner |-> owner, osd_ex |-> ex, buffer |-> buffer]

\* Default::default() of RtssSharedMemoryOsdEntry: every byte zero.
DefaultEntry ==
  Entry(Zeros(OsdLen), Zeros(OsdOwnerLen), Zeros(OsdExLen), Zeros(BufferLen))

\* What an entry may hold when this application first looks at it.
\* An empty entry whose owner has bytes left behind its terminator:
EmptyDirtyEntry ==
  Entry(Zeros(OsdLen),
        [k \in 1..OsdOwnerLen |-> IF k = 1 THEN 0 ELSE 120],
        Zeros(OsdExLen), Zeros(BufferLen))
\* The entry of another client whose owner starts with the mark and fills
\* the buffer, without terminator.
LongOwnerEntry ==
  Entry(Zeros(OsdLen),
        [k \in 1..OsdOwnerLen |->
           IF k <= Len(OWNER_SIGNATURE) THEN OWNER_SIGNATURE[k] ELSE 33],
        Padded(<<111>>, OsdExLen), Zeros(BufferLen))
\* An entry this application claimed in an earlier run, with stale text.
StaleEntry ==
  Entry([k \in 1..OsdLen |-> 115], Padded(OWNER_SIGNATURE, OsdOwnerLen),
        [k \in 1..OsdExLen |-> 115], [k \in 1..BufferLen |-> 115])
\* The owner name of another client that comes and goes: the mark without
\* its last byte.
OtherOwner == SubSeq(OWNER_SIGNATURE, 1, Len(OWNER_SIGNATURE) - 1)
OtherEntry ==
  Entry([k \in 1..OsdLen |-> 111], Padded(OtherOwner, OsdOwnerLen),
        Padded(<<111>>, OsdExLen), [k \in 1..BufferLen |-> 111])

InitialEntries == {EmptyDirtyEntry, LongOwnerEntry, StaleEntry}

\* The texts a SharedMemoryBuilder may hold: shorter than the extended-text
\* buffer, exactly as long, and longer.
TextOfLen(n) == [k \in 1..n |-> 64 + k]
Texts == {TextOfLen(n) : n \in (OsdExLen - 1)..(OsdExLen + 1)}

\* ------------------------------------------------------------- the state

VARIABLES
  \* The shared segment, owned by the server.
  exists,        \* the named object "RTSSSharedMemoryV2" exists
  hdr,           \* RtssSharedMemory without busy (bindings.rs:8-47)
  regionSize,    \* the size of the mapped region, as VirtualQuery reports it
  busy,          \* RtssSharedMemory.busy
  entries,       \* the OSD entries in the mapped memory, by index
  \* Another participant (the server or another client).
  otherHeld,     \* it is inside its critical section
  \* This process: the Rtss instance and the call in progress.
  ever_updated,  \* Rtss.ever_updated (rtss.rs:13)
  pc,            \* the position of the call in progress
  op,            \* "update" or "unregister"
  handle,        \* the Owned<HANDLE> of the segment is open
  view,          \* the OwnedMemoryMapView is mapped
  viewSize,      \* SharedMemoryView.size
  held,          \* a SharedMemoryGuard of this process is alive
  osd,           \* SharedMemoryBuilder.osd
  idx,           \* for_each_entry: i
  remembered,    \* for_each_entry: remembered_entry, {} or {index}
  outcome,       \* the result of the call, once it is decided
  \* History of the call in progress (not state of the program).
  opens,         \* calls of OpenFileMappingW
  busyOps,       \* writes of this process to busy
  touched,       \* indices of the entries handed to process or finalize
  wrote,         \* indices of the entries written
  atLock,        \* the entries when the guard of for_each_entry was taken
  everAtCall,    \* ever_updated when the call began
  openCode,      \* what OpenFileMappingW answered: 0, or the Win32 error
  seen,          \* what from_file read, and its result
  \* What Drop for Rtss made of the result of unregister (rtss.rs:96-102).
  handled,
  \* History of the instance: an update of it has returned an error.
  failedBefore,
  \* History of the instance: the entry its last successful update wrote,
  \* {} when there was none or the segment has gone since.
  lastSlot,
  \* The input and the output of a pure function under check.
  aux

vars == <<exists, hdr, regionSize, busy, entries, otherHeld, ever_updated, pc,
          op, handle, view, viewSize, held, osd, idx, remembered, outcome,
          opens, busyOps, touched, wrote, atLock, everAtCall, openCode, seen,
          handled, failedBefore, lastSlot, aux>>

shared == <<exists, hdr, regionSize, busy, entries, otherHeld>>
call == <<pc, op, handle, view, viewSize, held, osd, idx, remembered, outcome>>
history == <<opens, busyOps, touched, wrote, atLock, everAtCall>>

Slots == 0..(MaxSlots - 1)

\* from_file has not run in this call.
NotSeen ==
  [mapErr |-> 0, queryErr |-> 0, size |-> 0, signature |-> NoSignature,
   version |-> 0, result |-> NoResult]

\* No pure function is under check.
NoAux ==
  [s |-> <<>>, mem |-> <<>>, done |-> FALSE,
   out |-> [mem |-> <<>>, fit |-> FALSE]]

\* The header a running server of a supported version publishes, with room
\* for exactly MaxSlots entries behind the header.
BaseHeader ==
  [signature |-> RTSS_SIGNATURE, version |-> RTSS_MIN_SUPPORTED_VERSION,
   app_entry_size |-> 1, app_arr_offset |-> HeaderSize, app_arr_size |-> 0,
   osd_entry_size |-> EntrySize, osd_arr_offset |-> HeaderSize,
   osd_arr_size |-> MaxSlots, osd_frame |-> 0]
BaseRegion == HeaderSize + MaxSlots * EntrySize

\* Segments of a running, supported server: <<header, region size>>.
ValidSegments ==
  { <<BaseHeader, BaseRegion>>,
    <<[BaseHeader EXCEPT !.osd_arr_size = MaxSlots - 1, !.version = 196609],
      BaseRegion>> }

\* Segments of a running, supported server whose declared layout is
\* unusual, or does not fit the region.
OddSegments ==
  { <<[BaseHeader EXCEPT !.osd_arr_size = 1], BaseRegion>>,
    <<[BaseHeader EXCEPT !.osd_entry_size = EntrySize + 1], BaseRegion>>,
    <<BaseHeader, BaseRegion - 1>> }

\* Segments whose header fails a check before any entry is looked at.
BadSegments ==
  { <<[BaseHeader EXCEPT !.version = 131077], BaseRegion>>,        \* 2.5
    <<[BaseHeader EXCEPT !.version = 131085], BaseRegion>>,        \* 2.13
    <<[BaseHeader EXCEPT !.version = 65792], BaseRegion>>,         \* 1.256
    <<[BaseHeader EXCEPT !.signature = DeadSignature], BaseRegion>>,
    <<[BaseHeader EXCEPT !.signature = NoSignature, !.version = 0],
      HeaderSize - 1>>,
    <<[BaseHeader EXCEPT !.version = 131077], HeaderSize - 1>>,
    <<BaseHeader, HeaderSize - 1>>,
    <<[BaseHeader EXCEPT !.osd_arr_size = 0], HeaderSize>>,
    <<[BaseHeader EXCEPT !.osd_entry_size = EntrySize - 1], BaseRegion>>,
    <<[BaseHeader EXCEPT !.osd_entry_size = EntrySize - 1,
                         !.osd_arr_size = 0], BaseRegion>>,
    <<[BaseHeader EXCEPT !.app_arr_size = BaseRegion], BaseRegion>> }

\* Every entry zero: the memory a server has just created.
FreshEntries == [j \in Slots |-> DefaultEntry]

\* The example of the specification, [owned_by_other, empty, owned_by_us,
\* empty], continued with empty entries.
ExampleEntries ==
  [j \in Slots |-> IF j = 0 THEN LongOwnerEntry
                   ELSE IF j = 2 THEN StaleEntry ELSE EmptyDirtyEntry]

\* Entry 0 carries the mark; the others are empty, another client's or ours.
InitialContents ==
  {e \in [Slots -> InitialEntries] : e[0] = StaleEntry} \cup {ExampleEntries}

\* The state after Rtss::new() (rtss.rs:47-53): the server is absent, or
\* runs with some segment.
Init ==
  /\ \/ /\ exists = FALSE
        /\ hdr = BaseHeader /\ regionSize = BaseRegion
        /\ entries = FreshEntries
     \/ /\ exists = TRUE
        /\ \E seg \in ValidSegments : hdr = seg[1] /\ regionSize = seg[2]
        /\ entries \in InitialContents
     \/ /\ exists = TRUE
        /\ \E seg \in OddSegments : hdr = seg[1] /\ regionSize = seg[2]
        /\ entries \in {ExampleEntries, [j \in Slots |-> StaleEntry]}
     \/ /\ exists = TRUE
        /\ \E seg \in BadSegments : hdr = seg[1] /\ regionSize = seg[2]
        /\ entries = ExampleEntries
  /\ busy = 0
  /\ otherHeld = FALSE
  /\ ever_updated = FALSE
  /\ pc = "idle"
  /\ op = "update"
  /\ handle = FALSE
  /\ view = FALSE
  /\ viewSize = 0
  /\ held = FALSE
  /\ osd = <<>>
  /\ idx = 0
  /\ remembered = {}
  /\ outcome = NoResult
  /\ opens = 0
  /\ busyOps = 0
  /\ touched = {}
  /\ wrote = {}
  /\ atLock = <<>>
  /\ everAtCall = FALSE
  /\ openCode = -1
  /\ seen = NotSeen
  /\ handled = "none"
  /\ failedBefore = FALSE
  /\ lastSlot = {}
  /\ aux = NoAux

\* --------------------------------------------------- this process's calls

\* on_timer after which the controller has given up on RTSS: no update is
\* called once one has failed.
CallUpdate_bug ==
  /\ pc = "idle"
  /\ ~failedBefore
  /\ pc' = "open"
  /\ op' = "update"
  /\ everAtCall' = ever_updated
  /\ UNCHANGED <<aux, handled, failedBefore, lastSlot,
                 openCode, seen, shared, ever_updated, handle,
                 view, viewSize, held, idx, osd, remembered, outcome, opens,
                 busyOps, touched, wrote, atLock>>

\* Rtss::update is called (controller.rs:232-238): rtss.rs:55.  The text the
\* builder will hold is an input of the call.
CallUpdate ==
  /\ pc = "idle"
  /\ pc' = "open"
  /\ op' = "update"
  /\ everAtCall' = ever_updated
  /\ UNCHANGED <<aux, handled, failedBefore, lastSlot,
                 openCode, seen, shared, ever_updated, handle,
                 view, viewSize, held, idx, osd, remembered, outcome, opens,
                 busyOps, touched, wrote, atLock>>

\* Drop for Rtss (rtss.rs:93-104): unregister only if ever_updated.
DropRtss_bug ==
  /\ pc = "idle"
  /\ pc' = "open" /\ op' = "unregister"
  /\ everAtCall' = ever_updated
  /\ UNCHANGED <<aux, handled, failedBefore, lastSlot,
                 openCode, seen, shared, ever_updated, handle,
                 view, viewSize, held, osd, idx, remembered, outcome, opens,
                 busyOps, touched, wrote, atLock>>

DropRtss ==
  /\ pc = "idle"
  /\ IF ever_updated
       THEN pc' = "open" /\ op' = "unregister"
       ELSE pc' = "dropped" /\ UNCHANGED op
  /\ everAtCall' = ever_updated
  /\ UNCHANGED <<aux, handled, failedBefore, lastSlot,
                 openCode, seen, shared, ever_updated, handle,
                 view, viewSize, held, osd, idx, remembered, outcome, opens,
                 busyOps, touched, wrote, atLock>>

\* The Win32 errors OpenFileMappingW may fail with; 0: it succeeds.
\* (5: access denied.)
OpenOutcomes == IF exists THEN {0, 5} ELSE {ERROR_FILE_NOT_FOUND}

\* open_shared_memory (shared_memory.rs:57-68), and the `?` of its caller
\* (rtss.rs:56, rtss.rs:87).
Open ==
  /\ pc = "open"
  /\ opens' = opens + 1
  /\ \E code \in OpenOutcomes :
       /\ openCode' = code
       /\ IF code = 0
            THEN /\ handle' = TRUE
                 /\ pc' = "map"
                 /\ UNCHANGED outcome
            ELSE /\ outcome' = OpenError(code)
                 /\ pc' = "ret"
                 /\ UNCHANGED handle
  /\ UNCHANGED <<aux, handled, failedBefore, lastSlot,
                 seen, shared, ever_updated, op, view, viewSize,
                 held, osd, idx, remembered, busyOps, touched, wrote, atLock,
                 everAtCall>>

\* SharedMemoryView::from_file (shared_memory.rs:116-160) and the `?` of its
\* caller (rtss.rs:57, rtss.rs:88).  A view that was instantiated is unmapped
\* again on an error (shared_memory.rs:123-127, 75-83).
\* (8: not enough memory; 487: invalid address.)
Map ==
  /\ pc = "map"
  /\ \E mapErr \in {0, 8}, queryErr \in {0, 487} :
       LET r == FromFile(mapErr, queryErr, regionSize, hdr.signature, hdr.version)
       IN  /\ seen' = [mapErr |-> mapErr, queryErr |-> queryErr,
                       size |-> regionSize, signature |-> hdr.signature,
                       version |-> hdr.version, result |-> r]
           /\ IF r = Ok
                THEN /\ view' = TRUE
                     /\ viewSize' = regionSize
                     /\ pc' = IF op = "update" THEN "fps_lock" ELSE "lock"
                     /\ UNCHANGED outcome
                ELSE /\ outcome' = r
                     /\ pc' = "ret"
                     /\ UNCHANGED <<view, viewSize>>
  /\ UNCHANGED <<aux, handled, failedBefore, lastSlot,
                 openCode, shared, ever_updated, op, handle,
                 held, osd, idx, remembered, history>>

\* SharedMemoryView::get_fps (called at rtss.rs:60) takes the guard ...
GetFpsLock ==
  /\ pc = "fps_lock"
  /\ busy = 0
  /\ busy' = 1
  /\ held' = TRUE
  /\ busyOps' = busyOps + 1
  /\ pc' = "fps"
  /\ UNCHANGED <<aux, handled, failedBefore, lastSlot,
                 openCode, seen, exists, hdr, regionSize,
                 entries, otherHeld, ever_updated, op, handle, view, viewSize,
                 osd, idx, remembered, outcome, opens, touched, wrote, atLock,
                 everAtCall>>

\* The application array the header declares lies within the mapped region.
AppArrayInBounds ==
  hdr.app_arr_offset + hdr.app_arr_size * hdr.app_entry_size <= viewSize

\* ... reads the application entries within the bounds of the region, and
\* releases the guard: the frame rate, or UnexpectedMemoryLayout.
GetFps ==
  /\ pc = "fps"
  /\ busy' = 0
  /\ held' = FALSE
  /\ busyOps' = busyOps + 1
  /\ IF AppArrayInBounds
       THEN pc' = "lock" /\ (\E text \in Texts : osd' = text) /\ UNCHANGED outcome
       ELSE pc' = "ret" /\ outcome' = UnexpectedMemoryLayout /\ UNCHANGED osd
  /\ UNCHANGED <<aux, handled, failedBefore, lastSlot,
                 openCode, seen, exists, hdr, regionSize,
                 entries, otherHeld, ever_updated, op, handle, view, viewSize,
                 idx, remembered, opens, touched, wrote, atLock, everAtCall>>

\* SharedMemoryGuard::new (shared_memory.rs:23-34): the compare-exchange of
\* busy from 0 to 1 succeeds; while busy is 1 the loop spins.
Lock ==
  /\ pc = "lock"
  /\ busy = 0
  /\ busy' = 1
  /\ held' = TRUE
  /\ busyOps' = busyOps + 1
  /\ atLock' = entries
  /\ pc' = "check"
  /\ UNCHANGED <<aux, handled, failedBefore, lastSlot,
                 openCode, seen, exists, hdr, regionSize,
                 entries, otherHeld, ever_updated, op, handle, view, viewSize,
                 osd, idx, remembered, outcome, opens, touched, wrote,
                 everAtCall>>

\* for_each_entry, before the loop, starting the scan at index 0.
Check_zero ==
  /\ pc = "check"
  /\ IF hdr.signature # RTSS_SIGNATURE
       THEN /\ outcome' = RtssV2NotRunning
            /\ pc' = "unlock"
            /\ UNCHANGED <<idx, remembered>>
       ELSE IF hdr.osd_entry_size < EntrySize
       THEN /\ outcome' = UnexpectedMemoryLayout
            /\ pc' = "unlock"
            /\ UNCHANGED <<idx, remembered>>
       ELSE /\ remembered' = {}
            /\ idx' = 0
            /\ pc' = "scan"
            /\ UNCHANGED outcome
  /\ UNCHANGED <<aux, handled, failedBefore, lastSlot,
                 openCode, seen, shared, ever_updated, op,
                 handle, view, viewSize, held, osd, history>>

\* for_each_entry, before the loop, trusting the signature from_file saw.
Check_trust ==
  /\ pc = "check"
  /\ IF hdr.osd_entry_size < EntrySize
       THEN /\ outcome' = UnexpectedMemoryLayout
            /\ pc' = "unlock"
            /\ UNCHANGED <<idx, remembered>>
       ELSE /\ remembered' = {}
            /\ idx' = 1
            /\ pc' = "scan"
            /\ UNCHANGED outcome
  /\ UNCHANGED <<aux, handled, failedBefore, lastSlot,
                 openCode, seen, shared, ever_updated, op,
                 handle, view, viewSize, held, osd, history>>

\* for_each_entry, before the loop (shared_memory.rs:174-187).
Check_bug ==
  /\ pc = "check"
  /\ IF hdr.signature # RTSS_SIGNATURE
       THEN /\ outcome' = RtssV2NotRunning
            /\ pc' = "unlock"
            /\ UNCHANGED <<idx, remembered>>
       ELSE IF hdr.osd_entry_size < EntrySize
       THEN /\ outcome' = UnexpectedMemoryLayout
            /\ pc' = "unlock"
            /\ UNCHANGED <<idx, remembered>>
       ELSE /\ remembered' = {}
            /\ idx' = 1
            /\ pc' = "scan"
            /\ UNCHANGED outcome
  /\ busy' = 0
  /\ held' = FALSE
  /\ busyOps' = busyOps + 1
  /\ UNCHANGED <<aux, handled, failedBefore, lastSlot,
                 openCode, seen, exists, hdr, regionSize,
                 entries, otherHeld, ever_updated, op, handle, view, viewSize,
                 osd, opens, touched, wrote, atLock, everAtCall>>

Check ==
  /\ pc = "check"
  /\ IF hdr.signature # RTSS_SIGNATURE
       THEN /\ outcome' = RtssV2NotRunning
            /\ pc' = "unlock"
            /\ UNCHANGED <<idx, remembered>>
       ELSE IF hdr.osd_entry_size < EntrySize
       THEN /\ outcome' = UnexpectedMemoryLayout
            /\ pc' = "unlock"
            /\ UNCHANGED <<idx, remembered>>
       ELSE /\ remembered' = {}
            /\ idx' = 1
            /\ pc' = "scan"
            /\ UNCHANGED outcome
  /\ UNCHANGED <<aux, handled, failedBefore, lastSlot,
                 openCode, seen, shared, ever_updated, op,
                 handle, view, viewSize, held, osd, history>>

\* The closure SharedMemoryView::update passes as `process`
\* (shared_memory.rs:240-249): the directive, the entry as it leaves it, and
\* whether it wrote the entry.
UpdateProcess_bug(entry) ==
  LET current_owner == string_from_mem(entry.osd_owner)
  IN  [step |-> IF current_owner = OWNER_SIGNATURE THEN "RememberAndBreak"
                ELSE IF current_owner = <<>> THEN "RememberAndBreak"
                ELSE "Continue",
       entry |-> entry, written |-> FALSE]

UpdateProcess_any(entry) ==
  LET current_owner == string_from_mem(entry.osd_owner)
  IN  [step |-> IF current_owner = OWNER_SIGNATURE THEN "RememberAndBreak"
                ELSE "RememberIfNeededAndContinue",
       entry |-> entry, written |-> FALSE]

UpdateProcess_first(entry) ==
  LET current_owner == string_from_mem(entry.osd_owner)
  IN  [step |-> IF current_owner = OWNER_SIGNATURE
                   \/ current_owner = <<>> THEN "RememberIfNeededAndContinue"
                ELSE "Continue",
       entry |-> entry, written |-> FALSE]

UpdateProcess_empty(entry) ==
  LET current_owner == string_from_mem(entry.osd_owner)
  IN  [step |-> IF current_owner = <<>> THEN "RememberAndBreak"
                ELSE IF current_owner = OWNER_SIGNATURE
                  THEN "RememberIfNeededAndContinue"
                ELSE "Continue",
       entry |-> entry, written |-> FALSE]

UpdateProcess(entry) ==
  LET current_owner == string_from_mem(entry.osd_owner)
  IN  [step |-> IF current_owner = OWNER_SIGNATURE THEN "RememberAndBreak"
                ELSE IF current_owner = <<>> THEN "RememberIfNeededAndContinue"
                ELSE "Continue",
       entry |-> entry, written |-> FALSE]

\* The closure SharedMemoryView::unregister passes as `process`
\* (shared_memory.rs:218-230).
UnregisterProcess_bug(entry) ==
  [step |-> "Continue", entry |-> DefaultEntry, written |-> TRUE]

UnregisterProcess_break(entry) ==
  LET owner == string_from_mem(entry.osd_owner)
  IN  IF owner = OWNER_SIGNATURE
        THEN [step |-> "Break", entry |-> DefaultEntry, written |-> TRUE]
        ELSE [step |-> "Continue", entry |-> entry, written |-> FALSE]

UnregisterProcess(entry) ==
  LET owner == string_from_mem(entry.osd_owner)
  IN  IF owner = OWNER_SIGNATURE
        THEN [step |-> "Continue", entry |-> DefaultEntry, written |-> TRUE]
        ELSE [step |-> "Continue", entry |-> entry, written |-> FALSE]

Process(entry) ==
  IF op = "update" THEN UpdateProcess(entry) ELSE UnregisterProcess(entry)

\* shared_memory.rs:189-190: the entry at index i ends inside the view.
EntryInBounds_bug(i) ==
  hdr.osd_arr_offset + (i + 1) * hdr.osd_entry_size - 1 <= viewSize

EntryInBounds(i) ==
  hdr.osd_arr_offset + (i + 1) * hdr.osd_entry_size - 1 < viewSize

\* for_each_entry, one turn of a loop that does not advance.
Scan_stuck ==
  /\ pc = "scan"
  /\ IF idx >= hdr.osd_arr_size
       THEN /\ pc' = "finalize"
            /\ UNCHANGED <<entries, idx, remembered, outcome, touched, wrote>>
       ELSE IF ~EntryInBounds(idx)
       THEN /\ outcome' = UnexpectedMemoryLayout
            /\ pc' = "unlock"
            /\ UNCHANGED <<entries, idx, remembered, touched, wrote>>
       ELSE LET r == Process(entries[idx])
            IN  /\ entries' = [entries EXCEPT ![idx] = r.entry]
                /\ touched' = touched \cup {idx}
                /\ wrote' = IF r.written THEN wrote \cup {idx} ELSE wrote
                /\ remembered' =
                     CASE r.step = "RememberAndBreak" -> {idx}
                       [] r.step = "RememberIfNeededAndContinue" ->
                            IF remembered = {} THEN {idx} ELSE remembered
                       [] OTHER -> remembered
                /\ IF r.step \in {"Break", "RememberAndBreak"}
                     THEN pc' = "finalize" /\ UNCHANGED idx
                     ELSE pc' = "scan" /\ UNCHANGED idx
                /\ UNCHANGED outcome
  /\ UNCHANGED <<aux, handled, failedBefore, lastSlot,
                 openCode, seen, exists, hdr, regionSize, busy,
                 otherHeld, ever_updated, op, handle, view, viewSize, held,
                 osd, opens, busyOps, atLock, everAtCall>>

\* for_each_entry, one turn of a loop in which RememberIfNeededAndContinue
\* replaces what was remembered.
Scan_last ==
  /\ pc = "scan"
  /\ IF idx >= hdr.osd_arr_size
       THEN /\ pc' = "finalize"
            /\ UNCHANGED <<entries, idx, remembered, outcome, touched, wrote>>
       ELSE IF ~EntryInBounds(idx)
       THEN /\ outcome' = UnexpectedMemoryLayout
            /\ pc' = "unlock"
            /\ UNCHANGED <<entries, idx, remembered, touched, wrote>>
       ELSE LET r == Process(entries[idx])
            IN  /\ entries' = [entries EXCEPT ![idx] = r.entry]
                /\ touched' = touched \cup {idx}
                /\ wrote' = IF r.written THEN wrote \cup {idx} ELSE wrote
                /\ remembered' =
                     CASE r.step = "RememberAndBreak" -> {idx}
                       [] r.step = "RememberIfNeededAndContinue" ->
                            {idx}
                       [] OTHER -> remembered
                /\ IF r.step \in {"Break", "RememberAndBreak"}
                     THEN pc' = "finalize" /\ UNCHANGED idx
                     ELSE pc' = "scan" /\ idx' = idx + 1
                /\ UNCHANGED outcome
  /\ UNCHANGED <<aux, handled, failedBefore, lastSlot,
                 openCode, seen, exists, hdr, regionSize, busy,
                 otherHeld, ever_updated, op, handle, view, viewSize, held,
                 osd, opens, busyOps, atLock, everAtCall>>

\* for_each_entry, one turn of the loop (shared_memory.rs:188-212).
Scan ==
  /\ pc = "scan"
  /\ IF idx >= hdr.osd_arr_size
       THEN /\ pc' = "finalize"
            /\ UNCHANGED <<entries, idx, remembered, outcome, touched, wrote>>
       ELSE IF ~EntryInBounds(idx)
       THEN /\ outcome' = UnexpectedMemoryLayout
            /\ pc' = "unlock"
            /\ UNCHANGED <<entries, idx, remembered, touched, wrote>>
       ELSE LET r == Process(entries[idx])
            IN  /\ entries' = [entries EXCEPT ![idx] = r.entry]
                /\ touched' = touched \cup {idx}
                /\ wrote' = IF r.written THEN wrote \cup {idx} ELSE wrote
                /\ remembered' =
                     CASE r.step = "RememberAndBreak" -> {idx}
                       [] r.step = "RememberIfNeededAndContinue" ->
                            IF remembered = {} THEN {idx} ELSE remembered
                       [] OTHER -> remembered
                /\ IF r.step \in {"Break", "RememberAndBreak"}
                     THEN pc' = "finalize" /\ UNCHANGED idx
                     ELSE pc' = "scan" /\ idx' = idx + 1
                /\ UNCHANGED outcome
  /\ UNCHANGED <<aux, handled, failedBefore, lastSlot,
                 openCode, seen, exists, hdr, regionSize, busy,
                 otherHeld, ever_updated, op, handle, view, viewSize, held,
                 osd, opens, busyOps, atLock, everAtCall>>

\* The closure SharedMemoryBuilder::write passes to update
\* (shared_memory.rs:306-314): the entry as it leaves it and its result.
\* The text is not copied when the owner did not fit (`||`).
BuilderWrite_bug(entry, text) ==
  LET o == string_to_mem(OWNER_SIGNATURE, entry.osd_owner)
      x == string_to_mem(text, entry.osd_ex)
  IN  IF ~o.fit
        THEN [entry |-> [entry EXCEPT !.osd_owner = o.mem], res |-> EntryOverflow]
        ELSE [entry |-> [entry EXCEPT !.osd_owner = o.mem],
              res |-> IF x.fit THEN Ok ELSE EntryOverflow]

\* A write that clears the short text of the entry as well.
BuilderWrite_osd(entry, text) ==
  LET o == string_to_mem(OWNER_SIGNATURE, entry.osd_owner)
      x == string_to_mem(text, entry.osd_ex)
  IN  IF ~o.fit
        THEN [entry |-> [entry EXCEPT !.osd_owner = o.mem],
              res |-> EntryOverflow]
        ELSE [entry |-> [entry EXCEPT !.osd_owner = o.mem, !.osd_ex = x.mem,
                                      !.osd = Zeros(OsdLen)],
              res |-> IF x.fit THEN Ok ELSE EntryOverflow]

BuilderWrite(entry, text) ==
  LET o == string_to_mem(OWNER_SIGNATURE, entry.osd_owner)
      x == string_to_mem(text, entry.osd_ex)
  IN  IF ~o.fit
        THEN [entry |-> [entry EXCEPT !.osd_owner = o.mem], res |-> EntryOverflow]
        ELSE [entry |-> [entry EXCEPT !.osd_owner = o.mem, !.osd_ex = x.mem],
              res |-> IF x.fit THEN Ok ELSE EntryOverflow]

\* for_each_entry's call of `finalize` (shared_memory.rs:213): the closure of
\* update (shared_memory.rs:250-259) or of unregister (shared_memory.rs:231).
Finalize ==
  /\ pc = "finalize"
  /\ pc' = "unlock"
  /\ IF op = "unregister"
       THEN /\ outcome' = Ok
            /\ UNCHANGED <<entries, touched, wrote>>
       ELSE IF remembered = {}
       THEN /\ outcome' = NoEmptyOsdSlots
            /\ UNCHANGED <<entries, touched, wrote>>
       ELSE LET target_idx == CHOOSE k \in remembered : TRUE
                w == BuilderWrite(entries[target_idx], osd)
            IN  /\ entries' = [entries EXCEPT ![target_idx] = w.entry]
                /\ outcome' = w.res
                /\ touched' = touched \cup {target_idx}
                /\ wrote' = wrote \cup {target_idx}
  /\ UNCHANGED <<aux, handled, failedBefore, lastSlot,
                 openCode, seen, exists, hdr, regionSize, busy,
                 otherHeld, ever_updated, op, handle, view, viewSize, held,
                 osd, idx, remembered, opens, busyOps, atLock, everAtCall>>

\* Drop for SharedMemoryGuard (shared_memory.rs:51-55), when for_each_entry
\* returns: busy.store(0).
Unlock_bug ==
  /\ pc = "unlock"
  /\ busy' = IF outcome = Ok THEN 0 ELSE busy
  /\ held' = FALSE
  /\ busyOps' = IF outcome = Ok THEN busyOps + 1 ELSE busyOps
  /\ pc' = "ret"
  /\ UNCHANGED <<aux, handled, failedBefore, lastSlot,
                 openCode, seen, exists, hdr, regionSize,
                 entries, otherHeld, ever_updated, op, handle, view, viewSize,
                 osd, idx, remembered, outcome, opens, touched, wrote, atLock,
                 everAtCall>>

Unlock ==
  /\ pc = "unlock"
  /\ busy' = 0
  /\ held' = FALSE
  /\ busyOps' = busyOps + 1
  /\ pc' = "ret"
  /\ UNCHANGED <<aux, handled, failedBefore, lastSlot,
                 openCode, seen, exists, hdr, regionSize,
                 entries, otherHeld, ever_updated, op, handle, view, viewSize,
                 osd, idx, remembered, outcome, opens, touched, wrote, atLock,
                 everAtCall>>

\* The call returns `outcome`: update sets ever_updated after a write that
\* succeeded (rtss.rs:81-83); the view is unmapped and the handle closed
\* (shared_memory.rs:75-83, Owned<HANDLE>).
Return_bug ==
  /\ pc = "ret"
  /\ ever_updated' = IF op = "update" THEN TRUE ELSE ever_updated
  /\ view' = FALSE
  /\ handle' = FALSE
  /\ pc' = "done"
  /\ failedBefore' = (failedBefore \/ (op = "update" /\ outcome # Ok))
  /\ lastSlot' = IF op = "update" /\ outcome = Ok THEN wrote ELSE lastSlot
  /\ UNCHANGED <<aux, handled, openCode, seen, shared, op, viewSize, held,
                 osd, idx, remembered, outcome, history>>

Return_leak ==
  /\ pc = "ret"
  /\ ever_updated' = IF op = "update" /\ outcome = Ok THEN TRUE ELSE ever_updated
  /\ view' = IF outcome = Ok THEN FALSE ELSE view
  /\ handle' = IF outcome = Ok THEN FALSE ELSE handle
  /\ pc' = "done"
  /\ failedBefore' = (failedBefore \/ (op = "update" /\ outcome # Ok))
  /\ lastSlot' = IF op = "update" /\ outcome = Ok THEN wrote ELSE lastSlot
  /\ UNCHANGED <<aux, handled, openCode, seen, shared, op, viewSize, held,
                 osd, idx, remembered, outcome, history>>

Return ==
  /\ pc = "ret"
  /\ ever_updated' = IF op = "update" /\ outcome = Ok THEN TRUE ELSE ever_updated
  /\ view' = FALSE
  /\ handle' = FALSE
  /\ pc' = "done"
  /\ failedBefore' = (failedBefore \/ (op = "update" /\ outcome # Ok))
  /\ lastSlot' = IF op = "update" /\ outcome = Ok THEN wrote ELSE lastSlot
  /\ UNCHANGED <<aux, handled, openCode, seen, shared, op, viewSize, held,
                 osd, idx, remembered, outcome, history>>

\* The match of Drop for Rtss on the result of unregister (rtss.rs:96-102):
\* Ok and RtssV2NotRunning are passed over, any other error is logged with
\* error!; no arm returns or panics.
DropMatch_bug(result) ==
  IF result \in {Ok, RtssV2NotRunning} THEN "ignore"
  ELSE IF result.tag = "WindowsError" THEN "raise" ELSE "log"

DropMatch(result) ==
  IF result = Ok THEN "ignore"
  ELSE IF result = RtssV2NotRunning THEN "ignore"
  ELSE "log"

\* The caller goes on: the controller waits for the next tick
\* (controller.rs:232-238), or Drop for Rtss ends (rtss.rs:96-102).
\* Nothing of the call is kept.
Finish ==
  /\ pc = "done"
  /\ pc' = IF op = "update" THEN "idle" ELSE "dropped"
  /\ viewSize' = 0
  /\ osd' = <<>>
  /\ idx' = 0
  /\ remembered' = {}
  /\ outcome' = NoResult
  /\ opens' = 0 /\ busyOps' = 0 /\ touched' = {} /\ wrote' = {}
  /\ atLock' = <<>>
  /\ openCode' = -1
  /\ seen' = NotSeen
  /\ handled' = IF op = "update" THEN handled ELSE DropMatch(outcome)
  /\ UNCHANGED <<aux, failedBefore, lastSlot, shared, ever_updated, op,
                 handle, view, held, everAtCall>>

\* ------------------------------------------------- the other participants

\* A step of another participant is interleaved with the steps of this
\* process wherever the order of the two matters.  It is not taken between
\* the entry of a call and from_file, nor between the release of the guard
\* and the return: there this process looks at nothing another participant
\* changes, and the step is taken before the call or after it instead.
Apart == pc \notin {"open", "map", "ret", "done"}

\* Another participant enters its critical section (bindings.rs:43-46).
OtherAcquire ==
  /\ Apart
  /\ exists /\ ~otherHeld
  /\ busy = 0
  /\ busy' = 1
  /\ otherHeld' = TRUE
  /\ UNCHANGED <<aux, handled, failedBefore, lastSlot,
                 openCode, seen, exists, hdr, regionSize,
                 entries, ever_updated, call, history>>

\* Another client claims an empty entry, or gives up its own.
OtherWrite ==
  /\ Apart
  /\ exists /\ otherHeld
  /\ \E j \in Slots \ {0} :
       \/ /\ string_from_mem(entries[j].osd_owner) = <<>>
          /\ \A k \in 1..(j - 1) : string_from_mem(entries[k].osd_owner) # <<>>
          /\ entries' = [entries EXCEPT ![j] = OtherEntry]
       \/ /\ string_from_mem(entries[j].osd_owner) = OtherOwner
          /\ entries' = [entries EXCEPT ![j] = DefaultEntry]
  /\ UNCHANGED <<aux, handled, failedBefore, lastSlot,
                 openCode, seen, exists, hdr, regionSize, busy,
                 otherHeld, ever_updated, call, history>>

\* It leaves its critical section.
OtherRelease ==
  /\ Apart
  /\ exists /\ otherHeld
  /\ busy' = 0
  /\ otherHeld' = FALSE
  /\ UNCHANGED <<aux, handled, failedBefore, lastSlot,
                 openCode, seen, exists, hdr, regionSize,
                 entries, ever_updated, call, history>>

\* The server shuts down: it marks the memory for deallocation
\* (bindings.rs:12-13).
ServerMarkDead ==
  /\ Apart
  /\ exists
  /\ hdr.signature = RTSS_SIGNATURE
  /\ hdr' = [hdr EXCEPT !.signature = DeadSignature]
  /\ UNCHANGED <<aux, handled, failedBefore, lastSlot,
                 openCode, seen, exists, regionSize, busy,
                 entries, otherHeld, ever_updated, call, history>>

\* The object goes away once nobody holds it.
ServerExit ==
  /\ Apart
  /\ exists
  /\ hdr.signature = DeadSignature
  /\ ~handle /\ ~view /\ ~otherHeld
  /\ exists' = FALSE
  /\ hdr' = BaseHeader /\ regionSize' = BaseRegion
  /\ entries' = FreshEntries
  /\ busy' = 0
  /\ lastSlot' = {}
  /\ UNCHANGED <<aux, handled, failedBefore,
                 openCode, seen, otherHeld, ever_updated, call,
                 history>>

\* A server starts and publishes a fresh segment: of a supported version,
\* of an older one, or with a single entry.
ServerStart ==
  /\ Apart
  /\ ~exists
  /\ exists' = TRUE
  /\ \E seg \in {<<BaseHeader, BaseRegion>>,
                 <<[BaseHeader EXCEPT !.version = 131077], BaseRegion>>,
                 <<[BaseHeader EXCEPT !.osd_arr_size = 1], BaseRegion>>} :
       hdr' = seg[1] /\ regionSize' = seg[2]
  /\ UNCHANGED <<aux, handled, failedBefore, lastSlot,
                 openCode, seen, busy, entries, otherHeld,
                 ever_updated, call, history>>

Next ==
  \/ CallUpdate \/ DropRtss \/ Open \/ Map \/ GetFpsLock \/ GetFps \/ Lock
  \/ Check \/ Scan \/ Finalize \/ Unlock \/ Return \/ Finish
  \/ OtherAcquire \/ OtherWrite \/ OtherRelease
  \/ ServerMarkDead \/ ServerExit \/ ServerStart

Spec == Init /\ [][Next]_vars

\* ------------------------------- a segment that never held the mark

\* Contents in which no entry carries OWNER_SIGNATURE: entry 0 is another
\* client's, the others are empty or another client's.
CleanContents ==
  {e \in [Slots -> {EmptyDirtyEntry, LongOwnerEntry}] : e[0] = LongOwnerEntry}

\* The state after Rtss::new() (rtss.rs:47-53) when this application has
\* never written to the segment.
InitClean ==
  /\ \/ /\ exists = FALSE
        /\ hdr = BaseHeader /\ regionSize = BaseRegion
        /\ entries = FreshEntries
     \/ /\ exists = TRUE
        /\ \E seg \in ValidSegments \cup OddSegments :
             hdr = seg[1] /\ regionSize = seg[2]
        /\ entries \in CleanContents
  /\ busy = 0
  /\ otherHeld = FALSE
  /\ ever_updated = FALSE
  /\ pc = "idle"
  /\ op = "update"
  /\ handle = FALSE
  /\ view = FALSE
  /\ viewSize = 0
  /\ held = FALSE
  /\ osd = <<>>
  /\ idx = 0
  /\ remembered = {}
  /\ outcome = NoResult
  /\ opens = 0
  /\ busyOps = 0
  /\ touched = {}
  /\ wrote = {}
  /\ atLock = <<>>
  /\ everAtCall = FALSE
  /\ openCode = -1
  /\ seen = NotSeen
  /\ handled = "none"
  /\ failedBefore = FALSE
  /\ lastSlot = {}
  /\ aux = NoAux

SpecClean == InitClean /\ [][Next]_vars

\* ------------------------------------------------ the lock on its own

\* The participants: 1 is this process, the others are the server and the
\* other clients; each enters its critical section as SharedMemoryGuard::new
\* does and leaves it as Drop for SharedMemoryGuard does.
Procs == 1..MaxProcs

\* AtomicI32::compare_exchange(current, new) on a flag holding b
\* (shared_memory.rs:26-29): whether it succeeded, and the flag afterwards.
compare_exchange_bug(b, current, new) == [ok |-> TRUE, value |-> new]

compare_exchange(b, current, new) ==
  [ok |-> b = current, value |-> IF b = current THEN new ELSE b]

\* Nothing but the lock is looked at: the rest is as after Rtss::new().
InitLock ==
  /\ exists = TRUE
  /\ hdr = BaseHeader /\ regionSize = BaseRegion
  /\ entries = FreshEntries
  /\ busy = 0
  /\ otherHeld = FALSE
  /\ ever_updated = FALSE
  /\ pc = "idle"
  /\ op = "update"
  /\ handle = FALSE
  /\ view = FALSE
  /\ viewSize = 0
  /\ held = FALSE
  /\ osd = <<>>
  /\ idx = 0
  /\ remembered = {}
  /\ outcome = NoResult
  /\ opens = 0
  /\ busyOps = 0
  /\ touched = {}
  /\ wrote = {}
  /\ atLock = <<>>
  /\ everAtCall = FALSE
  /\ openCode = -1
  /\ seen = NotSeen
  /\ handled = "none"
  /\ failedBefore = FALSE
  /\ lastSlot = {}
  /\ aux = [at |-> [p \in Procs |-> "out"], turns |-> [p \in Procs |-> 0]]

\* SharedMemoryGuard::new is called (shared_memory.rs:23).
GuardCall(p) ==
  /\ aux.at[p] = "out"
  /\ aux.turns[p] < MaxTurns
  /\ aux' = [aux EXCEPT !.at[p] = "spin"]
  /\ UNCHANGED <<shared, ever_updated, call, history, openCode, seen,
                 handled, failedBefore, lastSlot>>

\* One turn of its loop (shared_memory.rs:26-32): the compare-exchange of
\* busy from 0 to 1; the guard exists once it succeeded.
GuardNew(p) ==
  /\ aux.at[p] = "spin"
  /\ LET r == compare_exchange(busy, 0, 1)
     IN  /\ busy' = r.value
         /\ aux' = [aux EXCEPT !.at[p] = IF r.ok THEN "in" ELSE "spin"]
  /\ UNCHANGED <<exists, hdr, regionSize, entries, otherHeld, ever_updated,
                 call, history, openCode, seen, handled, failedBefore,
                 lastSlot>>

\* Drop for SharedMemoryGuard (shared_memory.rs:51-55): busy.store(0).
GuardDrop(p) ==
  /\ aux.at[p] = "in"
  /\ busy' = 0
  /\ aux' = [aux EXCEPT !.at[p] = "out", !.turns[p] = @ + 1]
  /\ UNCHANGED <<exists, hdr, regionSize, entries, otherHeld, ever_updated,
                 call, history, openCode, seen, handled, failedBefore,
                 lastSlot>>

GuardCalls == \E p \in Procs : GuardCall(p)
GuardNews == \E p \in Procs : GuardNew(p)
GuardDrops == \E p \in Procs : GuardDrop(p)

NextLock == GuardCalls \/ GuardNews \/ GuardDrops

SpecLock == InitLock /\ [][NextLock]_vars

\* ------------------------------------------- string_to_mem on its own

\* The strings and the buffers string_to_mem is applied to: every string of
\* up to MaxStrLen bytes and every buffer of up to MaxMemLen bytes over two
\* byte values each.
SeqsUpTo(S, n) == UNION {[1..m -> S] : m \in 0..n}

InitStr ==
  /\ exists = FALSE
  /\ hdr = BaseHeader /\ regionSize = BaseRegion
  /\ entries = FreshEntries
  /\ busy = 0
  /\ otherHeld = FALSE
  /\ ever_updated = FALSE
  /\ pc = "idle"
  /\ op = "update"
  /\ handle = FALSE
  /\ view = FALSE
  /\ viewSize = 0
  /\ held = FALSE
  /\ osd = <<>>
  /\ idx = 0
  /\ remembered = {}
  /\ outcome = NoResult
  /\ opens = 0
  /\ busyOps = 0
  /\ touched = {}
  /\ wrote = {}
  /\ atLock = <<>>
  /\ everAtCall = FALSE
  /\ openCode = -1
  /\ seen = NotSeen
  /\ handled = "none"
  /\ failedBefore = FALSE
  /\ lastSlot = {}
  /\ \E s \in SeqsUpTo({65, 66}, MaxStrLen), mem \in SeqsUpTo({0, 7}, MaxMemLen) :
       aux = [s |-> s, mem |-> mem, done |-> FALSE,
              out |-> [mem |-> mem, fit |-> FALSE]]

\* string_to_mem(aux.s, &mut aux.mem) is called (shared_memory.rs:97-105).
ApplyStringToMem ==
  /\ ~aux.done
  /\ aux' = [aux EXCEPT !.done = TRUE, !.out = string_to_mem(aux.s, aux.mem)]
  /\ UNCHANGED <<shared, ever_updated, call, history, openCode, seen,
                 handled, failedBefore, lastSlot>>

NextStr == ApplyStringToMem

SpecStr == InitStr /\ [][NextStr]_vars


\* ------------------------------------------- the cycles under fairness

\* The state after Rtss::new() (rtss.rs:47-53) with the example contents;
\* aux.tries is the parity of the compare-exchanges that failed.
InitLive ==
  /\ \/ /\ exists = FALSE
        /\ hdr = BaseHeader /\ regionSize = BaseRegion
        /\ entries = FreshEntries
     \/ /\ exists = TRUE
        /\ \E seg \in {<<BaseHeader, BaseRegion>>} \cup OddSegments :
             hdr = seg[1] /\ regionSize = seg[2]
        /\ entries = ExampleEntries
  /\ busy = 0
  /\ otherHeld = FALSE
  /\ ever_updated = FALSE
  /\ pc = "idle"
  /\ op = "update"
  /\ handle = FALSE
  /\ view = FALSE
  /\ viewSize = 0
  /\ held = FALSE
  /\ osd = <<>>
  /\ idx = 0
  /\ remembered = {}
  /\ outcome = NoResult
  /\ opens = 0
  /\ busyOps = 0
  /\ touched = {}
  /\ wrote = {}
  /\ atLock = <<>>
  /\ everAtCall = FALSE
  /\ openCode = -1
  /\ seen = NotSeen
  /\ handled = "none"
  /\ failedBefore = FALSE
  /\ lastSlot = {}
  /\ aux = [tries |-> 0]

\* A loop that gives up when the compare-exchange fails.
LockSpin_timeout ==
  /\ pc \in {"fps_lock", "lock"}
  /\ LET r == compare_exchange(busy, 0, 1)
     IN  ~r.ok /\ busy' = r.value
  /\ aux' = [aux EXCEPT !.tries = 1 - @]
  /\ pc' = "ret"
  /\ outcome' = WindowsError(1460)
  /\ UNCHANGED <<handled, failedBefore, lastSlot, openCode, seen, exists,
                 hdr, regionSize, entries, otherHeld, ever_updated, op,
                 handle, view, viewSize, held, osd, idx, remembered,
                 history>>

\* SharedMemoryGuard::new, a turn of the loop in which the compare-exchange
\* fails (shared_memory.rs:25-31): busy is left as it is and the loop goes
\* on with spin_loop().
LockSpin ==
  /\ pc \in {"fps_lock", "lock"}
  /\ LET r == compare_exchange(busy, 0, 1)
     IN  ~r.ok /\ busy' = r.value
  /\ aux' = [aux EXCEPT !.tries = 1 - @]
  /\ UNCHANGED <<handled, failedBefore, lastSlot, openCode, seen, exists,
                 hdr, regionSize, entries, otherHeld, ever_updated, call,
                 history>>

NextLive == Next \/ LockSpin

\* A compare-exchange of this process, whether it succeeds or fails.
Attempt == GetFpsLock \/ Lock \/ LockSpin

\* The other steps of a call in progress.
Cycle ==
  \/ Open \/ Map \/ GetFps \/ Check \/ Scan \/ Finalize \/ Unlock \/ Return
  \/ Finish

\* The thread of this process is scheduled again and again: it goes on
\* attempting the compare-exchange and goes on with a call it is in; and a
\* participant that holds busy stores 0 in the end.
SpecLive ==
  /\ InitLive /\ [][NextLive]_vars
  /\ WF_vars(Attempt) /\ WF_vars(Cycle) /\ WF_vars(OtherRelease)

\* The same with a participant that may hold busy for ever (a server that
\* hangs inside its critical section): only the thread of this process is
\* scheduled again and again.
SpecHang ==
  /\ InitLive /\ [][NextLive]_vars
  /\ WF_vars(Attempt) /\ WF_vars(Cycle)

\* ------------------------------------------------- Versioned on its own
\* src/src/versioned.rs: a value with a version number that stands in for
\* the comparison of the contents.

\* The RTSS side as Rtss::new() leaves it, with no server: what the
\* specifications of the other modules hold still.
NoRtss ==
  /\ exists = FALSE
  /\ hdr = BaseHeader /\ regionSize = BaseRegion
  /\ entries = FreshEntries
  /\ busy = 0
  /\ otherHeld = FALSE
  /\ ever_updated = FALSE
  /\ pc = "idle"
  /\ op = "update"
  /\ handle = FALSE
  /\ view = FALSE
  /\ viewSize = 0
  /\ held = FALSE
  /\ osd = <<>>
  /\ idx = 0
  /\ remembered = {}
  /\ outcome = NoResult
  /\ opens = 0
  /\ busyOps = 0
  /\ touched = {}
  /\ wrote = {}
  /\ atLock = <<>>
  /\ everAtCall = FALSE
  /\ openCode = -1
  /\ seen = NotSeen
  /\ handled = "none"
  /\ failedBefore = FALSE
  /\ lastSlot = {}

\* The values of the version field (versioned.rs:7), u64 scaled down to
\* VersionBits bits; fastrand::u64(..) draws any of them.
Versions == 0..(2^VersionBits - 1)

\* Versioned::new (versioned.rs:11-16) with the number fastrand drew.
VersionedNew(inner, random) == [inner |-> inner, version |-> random]

\* Versioned::bump_version (versioned.rs:18-26) with the candidate fastrand
\* drew; candidate + 1 wraps in a release build.
bump_version_bug(self, candidate) == [self EXCEPT !.version = candidate]

bump_version(self, candidate) ==
  [self EXCEPT !.version = IF candidate = self.version
                             THEN (candidate + 1) % (2^VersionBits)
                             ELSE candidate]

\* candidate + 1 overflows (versioned.rs:22): a panic in a debug build.
BumpOverflows(self, candidate) ==
  candidate = self.version /\ candidate = 2^VersionBits - 1

\* Clone for Versioned (versioned.rs:29-36).
VersionedClone(self) == [inner |-> self.inner, version |-> self.version]

\* PartialEq for Versioned (versioned.rs:53-60): the result, and whether the
\* PartialEq of the contents (of self, the left operand) was invoked.
VersionedEq(self, other) ==
  IF self.version = other.version
    THEN [res |-> TRUE, inner_eq |-> FALSE]
    ELSE [res |-> self.inner = other.inner, inner_eq |-> TRUE]

\* The contents: a Vec of up to MaxPush elements 10 (versioned.rs:77-87).
Operands == {"a", "b"}
NoCmp == [done |-> FALSE, l |-> "a", r |-> "b", res |-> FALSE, invoked |-> "none"]

\* let mut a = Versioned::new(vec![]); let mut b = a.clone();
\* (versioned.rs:77-78, 104-107).  bumps: the calls of deref_mut on each
\* since the clone; derefs: those of deref; cmp: the last comparison.
InitVer ==
  /\ NoRtss
  /\ \E random \in Versions :
       LET a == VersionedNew(<<>>, random)
       IN  aux = [a |-> a, b |-> VersionedClone(a),
                  bumps |-> [x \in Operands |-> 0], derefs |-> 0,
                  panicked |-> FALSE, cmp |-> NoCmp]

\* Deref for Versioned (versioned.rs:38-44): nothing changes.
VerDeref ==
  /\ ~aux.panicked
  /\ aux' = [aux EXCEPT !.derefs = Min(@ + 1, MaxDerefs)]
  /\ UNCHANGED <<shared, ever_updated, call, history, openCode, seen,
                 handled, failedBefore, lastSlot>>

\* DerefMut for Versioned (versioned.rs:46-51), and what the caller does
\* with the reference: nothing, push(10), or pop().
VerDerefMut ==
  /\ ~aux.panicked
  /\ \E x \in Operands, candidate \in Versions, change \in {"none", "push", "pop"} :
       LET self == aux[x]
           bumped == bump_version(self, candidate)
           inner == CASE change = "push" /\ Len(self.inner) < MaxPush
                           -> Append(self.inner, 10)
                      [] change = "pop" /\ Len(self.inner) > 0
                           -> SubSeq(self.inner, 1, Len(self.inner) - 1)
                      [] OTHER -> self.inner
       IN  \/ aux' = [aux EXCEPT ![x] = [bumped EXCEPT !.inner = inner],
                                 !.bumps[x] = Min(@ + 1, MaxBumps),
                                 !.cmp = NoCmp]
           \/ /\ BumpOverflows(self, candidate)
              /\ aux' = [aux EXCEPT !.panicked = TRUE, !.cmp = NoCmp]
  /\ UNCHANGED <<shared, ever_updated, call, history, openCode, seen,
                 handled, failedBefore, lastSlot>>

\* l == r (versioned.rs:53-60).
VerCompare ==
  /\ ~aux.panicked
  /\ \E l \in Operands, r \in Operands :
       LET e == VersionedEq(aux[l], aux[r])
       IN  aux' = [aux EXCEPT !.cmp = [done |-> TRUE, l |-> l, r |-> r,
                                       res |-> e.res,
                                       invoked |-> IF e.inner_eq THEN l
                                                   ELSE "none"]]
  /\ UNCHANGED <<shared, ever_updated, call, history, openCode, seen,
                 handled, failedBefore, lastSlot>>

\* b = a.clone() (versioned.rs:29-36, 78).
VerClone ==
  /\ ~aux.panicked
  /\ aux' = [aux EXCEPT !.b = VersionedClone(aux.a),
                        !.bumps = [x \in Operands |-> 0],
                        !.derefs = 0, !.cmp = NoCmp]
  /\ UNCHANGED <<shared, ever_updated, call, history, openCode, seen,
                 handled, failedBefore, lastSlot>>

NextVer == VerDeref \/ VerDerefMut \/ VerCompare \/ VerClone

SpecVer == InitVer /\ [][NextVer]_vars

\* ------------------------------------------------ FileLogger on its own
\* src/src/logging.rs.  A log file name "LilPowerMan<YYYYMMDD>_<ccc>.log" is
\* the record of its date, as a number, and the three characters of its
\* counter; every name here matches LOG_FILENAME_PATTERN (logging.rs:22).

\* get_local_time() of the tests (logging.rs:151-163): 2025-05-10.
Today == 20250510

LogName(date, counter) == [date |-> date, counter |-> counter]

\* The names a directory may hold: of today with the counters "000", "003",
\* "999", "xyz" and "+12", of the day after with "000" and "xyz", of the day
\* before with "000" and "999".
LogNames ==
  {LogName(Today, c) : c \in {<<48, 48, 48>>, <<48, 48, 51>>, <<57, 57, 57>>,
                              <<120, 121, 122>>, <<43, 49, 50>>}}
  \cup {LogName(Today + 1, c) : c \in {<<48, 48, 48>>, <<120, 121, 122>>}}
  \cup {LogName(Today - 1, c) : c \in {<<48, 48, 48>>, <<57, 57, 57>>}}

\* The order of two counters as strings: byte by byte.
CounterLess(c, d) ==
  \E k \in 1..3 : c[k] < d[k] /\ \A j \in 1..(k - 1) : c[j] = d[j]

\* The order sort_unstable() puts the names in (logging.rs:43).
NameLess(f, g) ==
  f.date < g.date \/ (f.date = g.date /\ CounterLess(f.counter, g.counter))

\* The position of a name in existing_logs after sort and reverse
\* (logging.rs:43-44): 0 for the greatest.
Position(f, files) == Cardinality({g \in files : NameLess(f, g)})

\* existing_logs.iter().skip(MAX_LOG_FILES - 1), keeping one file too many.
OldLogs_bug(files) == {f \in files : Position(f, files) >= MaxLogFiles}

\* existing_logs.iter().skip(MAX_LOG_FILES - 1) (logging.rs:49).
OldLogs(files) == {f \in files : Position(f, files) >= MaxLogFiles - 1}

\* existing_logs.iter().take(MAX_LOG_FILES - 1) (logging.rs:70).
NewestLogs(files) == {f \in files : Position(f, files) < MaxLogFiles - 1}

\* suffix[..3].parse::<i32>() (logging.rs:74): digits, with a sign or
\* without one.
ParseCounter(c) ==
  LET digit(k) == c[k] \in 48..57
      val(k) == c[k] - 48
  IN  IF digit(1) /\ digit(2) /\ digit(3)
        THEN [ok |-> TRUE, i |-> 100 * val(1) + 10 * val(2) + val(3)]
      ELSE IF c[1] = 43 /\ digit(2) /\ digit(3)
        THEN [ok |-> TRUE, i |-> 10 * val(2) + val(3)]
      ELSE IF c[1] = 45 /\ digit(2) /\ digit(3)
        THEN [ok |-> TRUE, i |-> 0 - (10 * val(2) + val(3))]
      ELSE [ok |-> FALSE, i |-> 0]

\* format!("{:03}", counter) (logging.rs:31-33): padded with zeroes to three
\* characters, the sign among them.
FormatCounter(counter) ==
  LET digits == Decimal(IF counter < 0 THEN 0 - counter ELSE counter)
      sign == IF counter < 0 THEN <<45>> ELSE <<>>
      width == Len(sign) + Len(digits)
  IN  sign \o [k \in 1..(IF width < 3 THEN 3 - width ELSE 0) |-> 48] \o digits

\* The loop over the newest files (logging.rs:70-89): the counter of the
\* first of them, in descending order, that has today's prefix and a suffix
\* that parses, plus one, 999 giving 0; 0 when there is none.
NextCounter(files) ==
  LET matching == {f \in NewestLogs(files) :
                     f.date = Today /\ ParseCounter(f.counter).ok}
  IN  IF matching = {} THEN 0
      ELSE LET first == CHOOSE f \in matching :
                          \A g \in matching : ~NameLess(f, g)
               i == ParseCounter(first.counter).i
           IN  IF i = 999 THEN 0 ELSE i + 1

\* FileLogger::new_log_file (logging.rs:36-93) over the files of the
\* directory, `locked` being those Files::delete fails on: the deletions
\* attempted, the files afterwards, the name handed to Files::create and
\* whether it created the file (create_new fails on a file that exists,
\* winapi/files.rs:35-41).
new_log_file(files, locked) ==
  LET attempted == OldLogs(files)
      remaining == files \ (attempted \ locked)
      name == LogName(Today, FormatCounter(NextCounter(files)))
      created == name \notin remaining
  IN  [attempted |-> attempted,
       name |-> name,
       created |-> created,
       files |-> IF created THEN remaining \cup {name} ELSE remaining]

\* FileLogger::new() (logging.rs:95-102) in a directory with some log
\* files.  aux.buffer is Inner.buffer, aux.file is Inner.file, aux.content
\* is what the new log file holds; the records are numbered.
InitLog ==
  /\ NoRtss
  /\ \E files \in SUBSET LogNames :
       aux = [files |-> files, before |-> files, locked |-> {},
              buffer |-> <<>>, file |-> FALSE, content |-> <<>>,
              logged |-> 0, done |-> FALSE, ok |-> FALSE,
              name |-> LogName(0, <<>>), attempted |-> {}]

\* Log::log for FileLogger (logging.rs:118-139): to the file once there is
\* one, to the buffer before.
LoggerLog ==
  /\ aux.logged < MaxRecords
  /\ aux' = IF aux.file
              THEN [aux EXCEPT !.logged = @ + 1,
                               !.content = Append(@, aux.logged + 1)]
              ELSE [aux EXCEPT !.logged = @ + 1,
                               !.buffer = Append(@, aux.logged + 1)]
  /\ UNCHANGED <<shared, ever_updated, call, history, openCode, seen,
                 handled, failedBefore, lastSlot>>

\* FileLogger::init (logging.rs:104-110): new_log_file, and on success the
\* buffer goes to the new file.
LoggerInit ==
  /\ ~aux.done
  /\ \E locked \in SUBSET OldLogs(aux.files) :
       LET r == new_log_file(aux.files, locked)
       IN  aux' = [aux EXCEPT
                     !.done = TRUE, !.ok = r.created, !.locked = locked,
                     !.before = aux.files, !.files = r.files,
                     !.name = r.name, !.attempted = r.attempted,
                     !.file = r.created,
                     !.buffer = IF r.created THEN <<>> ELSE @,
                     !.content = IF r.created THEN aux.buffer ELSE @]
  /\ UNCHANGED <<shared, ever_updated, call, history, openCode, seen,
                 handled, failedBefore, lastSlot>>

NextLog == LoggerLog \/ LoggerInit

SpecLog == InitLog /\ [][NextLog]_vars

\* ------------------------------------------- FileLogger and its threads
\* src/src/logging.rs with FileLogger as the logger of the `log` crate:
\* error!, warn!, info! and debug! call Log::log of the FileLogger on the
\* thread that reports.

Threads == 1..MaxThreads

\* The directories init runs in: none of the files is old; one file is
\* deleted; and the directory in which the name of the new file is taken.
Dirs ==
  { {},
    {LogName(Today, <<48, 48, 51>>), LogName(Today - 1, <<48, 48, 48>>),
     LogName(Today - 1, <<57, 57, 57>>)},
    {LogName(Today, <<48, 48, 48>>), LogName(Today, <<48, 48, 51>>),
     LogName(Today, <<57, 57, 57>>)} }

\* The reports new_log_file makes through the logger: a warn! for every
\* deletion that fails (logging.rs:52-56), an info! when files were deleted
\* (logging.rs:62-64), a debug! for every suffix skipped (logging.rs:83-86)
\* and a warn! when the counter starts over (logging.rs:75-77).
NewLogReports(files, locked) ==
  LET attempted == OldLogs(files)
      todays == {f \in NewestLogs(files) : f.date = Today}
      matching == {f \in todays : ParseCounter(f.counter).ok}
      skipped == {f \in todays \ matching :
                    \A g \in matching : NameLess(g, f)}
      first == CHOOSE f \in matching : \A g \in matching : ~NameLess(f, g)
  IN  Cardinality(attempted \cap locked)
        + (IF attempted \ locked # {} THEN 1 ELSE 0)
        + Cardinality(skipped)
        + (IF matching # {} /\ ParseCounter(first.counter).i = 999
             THEN 1 ELSE 0)

\* A thread outside the logger.
IdleThread == [pc |-> "idle", back |-> "idle", rec |-> 0, pending |-> 0,
               created |-> FALSE]

\* FileLogger::new() (logging.rs:95-102), installed as the logger.
\* aux.owner: the thread that holds the Mutex, 0 for none; aux.poisoned: a
\* thread has panicked with the guard alive; aux.buffer and aux.file: Inner;
\* aux.content: what the log file holds; the records are numbered in the
\* order in which Log::log is called with them.
\* History: aux.order, the records in the order of their critical
\* sections; aux.returned, the records whose call of log has returned;
\* aux.earlier[r], the records that had returned when log was called with r.
InitMt ==
  /\ NoRtss
  /\ \E files \in Dirs :
       aux = [th |-> [t \in Threads |-> IdleThread], owner |-> 0,
              buffer |-> <<>>, file |-> FALSE, content |-> <<>>,
              files |-> files, init |-> "none", logged |-> 0, own |-> 0,
              flushes |-> 0, poisoned |-> FALSE, order |-> <<>>,
              returned |-> {}, earlier |-> <<>>]

\* Log::log is called with a new record, to come back to `back`: the time
\* is taken and the line formatted (logging.rs:119-132).
CallLog(a, t, back) ==
  [a EXCEPT !.th[t].pc = "log_lock", !.th[t].back = back,
            !.th[t].rec = a.logged + 1,
            !.logged = @ + 1,
            !.earlier = Append(@, a.returned)]

\* A thread of the application logs a record.
MtLog(t) ==
  /\ aux.th[t].pc = "idle"
  /\ aux.own < MaxRecords
  /\ aux' = [CallLog(aux, t, "idle") EXCEPT !.own = @ + 1]
  /\ UNCHANGED <<shared, ever_updated, call, history, openCode, seen,
                 handled, failedBefore, lastSlot>>

\* self.inner.lock().unwrap() in log (logging.rs:133): the Mutex is free;
\* unwrap panics when it is poisoned.
MtLogLock(t) ==
  /\ aux.th[t].pc = "log_lock"
  /\ aux.owner = 0
  /\ aux' = IF aux.poisoned
              THEN [aux EXCEPT !.th[t].pc = "panicked"]
              ELSE [aux EXCEPT !.owner = t, !.th[t].pc = "log_in"]
  /\ UNCHANGED <<shared, ever_updated, call, history, openCode, seen,
                 handled, failedBefore, lastSlot>>

\* self.inner.lock() in log on the thread that holds the Mutex: "this
\* function will not return on the second call (it might panic or
\* deadlock)" (std::sync::Mutex::lock).  The panic unwinds through the
\* guard of the caller, which poisons the Mutex and releases it.
MtLogRelock(t) ==
  /\ aux.th[t].pc = "log_lock"
  /\ aux.owner = t
  /\ \/ aux' = [aux EXCEPT !.th[t].pc = "deadlocked"]
     \/ aux' = [aux EXCEPT !.th[t].pc = "panicked", !.owner = 0,
                           !.poisoned = TRUE]
  /\ UNCHANGED <<shared, ever_updated, call, history, openCode, seen,
                 handled, failedBefore, lastSlot>>

\* The rest of log (logging.rs:134-139): to the file once there is one, to
\* the buffer before; the guard is dropped and log returns.
MtLogWrite(t) ==
  /\ aux.th[t].pc = "log_in"
  /\ LET r == aux.th[t].rec
         a == IF aux.file THEN [aux EXCEPT !.content = Append(@, r)]
                          ELSE [aux EXCEPT !.buffer = Append(@, r)]
     IN  aux' = [a EXCEPT !.owner = 0,
                          !.order = Append(@, r),
                          !.returned = @ \cup {r},
                          !.th[t].pc = aux.th[t].back,
                          !.th[t].back = "idle",
                          !.th[t].rec = 0]
  /\ UNCHANGED <<shared, ever_updated, call, history, openCode, seen,
                 handled, failedBefore, lastSlot>>

\* FileLogger::init is called, once: new_log_file up to Files::create
\* (logging.rs:36-91), for the files Files::delete fails on.
MtInit(t) ==
  /\ aux.th[t].pc = "idle"
  /\ aux.init = "none"
  /\ \E locked \in {{}, OldLogs(aux.files)} :
       LET r == new_log_file(aux.files, locked)
       IN  aux' = [aux EXCEPT
                     !.init = "running", !.files = r.files,
                     !.th[t].pc = "init_report",
                     !.th[t].pending = NewLogReports(aux.files, locked),
                     !.th[t].created = r.created]
  /\ UNCHANGED <<shared, ever_updated, call, history, openCode, seen,
                 handled, failedBefore, lastSlot>>

\* The reports of new_log_file, one after the other, and then the result
\* of Files::create (logging.rs:92) and the `?` of init (logging.rs:105).
MtInitReport(t) ==
  /\ aux.th[t].pc = "init_report"
  /\ aux' = IF aux.th[t].pending > 0
              THEN [CallLog(aux, t, "init_report") EXCEPT
                      !.th[t].pending = @ - 1]
            ELSE IF aux.th[t].created
              THEN [aux EXCEPT !.th[t].pc = "init_lock"]
            ELSE [aux EXCEPT !.th[t].pc = "idle", !.init = "failed"]
  /\ UNCHANGED <<shared, ever_updated, call, history, openCode, seen,
                 handled, failedBefore, lastSlot>>

\* self.inner.lock().unwrap() in init (logging.rs:106).
MtInitLock(t) ==
  /\ aux.th[t].pc = "init_lock"
  /\ aux.owner = 0
  /\ aux' = IF aux.poisoned
              THEN [aux EXCEPT !.th[t].pc = "panicked"]
              ELSE [aux EXCEPT !.owner = t, !.th[t].pc = "init_in"]
  /\ UNCHANGED <<shared, ever_updated, call, history, openCode, seen,
                 handled, failedBefore, lastSlot>>

\* A write of the buffer that leaves it in place.
MtInitWrite_keep(t) ==
  /\ aux.th[t].pc = "init_in"
  /\ aux' = [aux EXCEPT !.content = aux.buffer,
                        !.file = TRUE, !.init = "ok", !.owner = 0,
                        !.th[t].pc = "idle"]
  /\ UNCHANGED <<shared, ever_updated, call, history, openCode, seen,
                 handled, failedBefore, lastSlot>>

\* The rest of init (logging.rs:107-109): the buffer is taken and written
\* to the new file, which becomes Inner.file; the guard is dropped.
MtInitWrite(t) ==
  /\ aux.th[t].pc = "init_in"
  /\ aux' = [aux EXCEPT !.content = aux.buffer, !.buffer = <<>>,
                        !.file = TRUE, !.init = "ok", !.owner = 0,
                        !.th[t].pc = "idle"]
  /\ UNCHANGED <<shared, ever_updated, call, history, openCode, seen,
                 handled, failedBefore, lastSlot>>

\* log::logger().flush() (ryzenadj.rs:183-189): Log::flush is called.
MtFlush(t) ==
  /\ aux.th[t].pc = "idle"
  /\ aux.flushes < MaxFlushes
  /\ aux' = [aux EXCEPT !.flushes = @ + 1, !.th[t].pc = "flush_lock"]
  /\ UNCHANGED <<shared, ever_updated, call, history, openCode, seen,
                 handled, failedBefore, lastSlot>>

\* self.inner.lock().unwrap() in flush (logging.rs:142).
MtFlushLock(t) ==
  /\ aux.th[t].pc = "flush_lock"
  /\ aux.owner = 0
  /\ aux' = IF aux.poisoned
              THEN [aux EXCEPT !.th[t].pc = "panicked"]
              ELSE [aux EXCEPT !.owner = t, !.th[t].pc = "flush_in"]
  /\ UNCHANGED <<shared, ever_updated, call, history, openCode, seen,
                 handled, failedBefore, lastSlot>>

\* The rest of flush (logging.rs:143-148): with a file, sync_data succeeds
\* or fails, and its failure is reported with error! while the guard is
\* alive; the guard is dropped when flush returns.
MtFlushSync(t) ==
  /\ aux.th[t].pc = "flush_in"
  /\ \/ aux' = [aux EXCEPT !.owner = 0, !.th[t].pc = "idle"]
     \/ /\ aux.file
        /\ aux' = CallLog(aux, t, "flush_out")
  /\ UNCHANGED <<shared, ever_updated, call, history, openCode, seen,
                 handled, failedBefore, lastSlot>>

NextMt ==
  \E t \in Threads :
    \/ MtLog(t) \/ MtLogLock(t) \/ MtLogRelock(t) \/ MtLogWrite(t)
    \/ MtInit(t) \/ MtInitReport(t) \/ MtInitLock(t) \/ MtInitWrite(t)
    \/ MtFlush(t) \/ MtFlushLock(t) \/ MtFlushSync(t)

SpecMt == InitMt /\ [][NextMt]_vars

\* ------------------------------------------------ the text of the rate

\* The extremes of i32.
I32Min == -2147483647 - 1
I32Max == 2147483647

\* `/` and `%` of i32 by a positive divisor (rtss.rs:65-66): the quotient
\* is rounded towards zero and the remainder has the sign of the dividend.
TruncDiv(a, b) ==
  IF a >= 0 \/ a % b = 0 THEN a \div b ELSE (a \div b) + 1
TruncRem(a, b) == a - b * TruncDiv(a, b)

\* i32::abs of a value other than i32::MIN.
Abs(n) == IF n < 0 THEN -n ELSE n

\* format!("{}", n) for an i32: a minus sign for a negative number, and
\* the decimal digits.
Display(n) == IF n < 0 THEN <<45>> \o Decimal(-n) ELSE Decimal(n)

\* format!("{:03}", n) for a number that is not negative: its decimal
\* digits, with zeroes in front up to a width of three.
Display03(n) ==
  LET d == Decimal(n)
  IN  IF Len(d) >= 3 THEN d ELSE [k \in 1..(3 - Len(d)) |-> 48] \o d

\* "<S=50>W<S>" (rtss.rs:64)
WattMarkup == <<60, 83, 61, 53, 48, 62, 87, 60, 83, 62>>

\* rtss.rs:63-67: the first text update adds to the builder.
RateText(charge_rate) ==
  Display(TruncDiv(charge_rate, 1000)) \o <<46>>
    \o Display03(Abs(TruncRem(charge_rate, 1000))) \o WattMarkup

\* The charge rates a BatteryStatus may carry.
Rates == (-MaxRate..MaxRate) \cup {I32Min, I32Max}

InitFmt ==
  /\ NoRtss
  /\ \E r \in Rates : aux = [charge_rate |-> r, done |-> FALSE, text |-> <<>>]

\* rtss.rs:63-67 for the charge rate of the status.
ComposeRate ==
  /\ ~aux.done
  /\ aux' = [aux EXCEPT !.done = TRUE, !.text = RateText(aux.charge_rate)]
  /\ UNCHANGED <<shared, ever_updated, call, history, openCode, seen,
                 handled, failedBefore, lastSlot>>

NextFmt == ComposeRate

SpecFmt == InitFmt /\ [][NextFmt]_vars

\* ------------------------------------------------ the controller's TDP
\* src/src/main_window/controller.rs (refresh_tdp, on_command) and
\* src/src/settings.rs.  An Option is the empty set or a set of one value.

\* The first of the limits get_tdp_options offers (controller.rs:155-158);
\* the chip has one of them as its limit.
TdpOptions == {5000, 7500}

\* The applications that come to the foreground; SelfPath is self_path.
Apps == {"game", "shell"}
SelfPath == "self"

\* TdpSetting (settings.rs:14-19).
SettingTracking == [tag |-> "Tracking", x |-> 0]
SettingForcing(x) == [tag |-> "Forcing", x |-> x]

\* TdpState, as refresh_tdp uses it (controller.rs:177-200).
TdpTracking == [tag |-> "Tracking", fallback |-> {}]
TdpForcing == [tag |-> "Forcing", fallback |-> {}]
ForcingApplication(fallback) ==
  [tag |-> "ForcingApplication", fallback |-> fallback]

\* Settings::get_app_limit (settings.rs:28-30).
get_app_limit(settings, app) ==
  IF app \in DOMAIN settings.app_limits
    THEN {settings.app_limits[app]} ELSE {}

\* load_tdp_setting (settings.rs:72-95) and load (settings.rs:97-152) for a
\* registry whose values under Applications are all DWORDs.
load(reg) ==
  [app_limits |-> reg.apps,
   tdp |-> IF reg.tdp = 0 THEN SettingTracking ELSE SettingForcing(reg.tdp)]

\* The values the keys of the registry may hold when the program starts.
Registries ==
  {[tdp |-> t, apps |-> f] :
     t \in {0} \cup TdpOptions,
     f \in UNION {[S -> {5000}] : S \in SUBSET Apps}}

\* A function without the argument x.
Without(f, x) == [y \in DOMAIN f \ {x} |-> f[y]]
\* A function with the value v at x.
With(f, x, v) == [y \in DOMAIN f \cup {x} |-> IF y = x THEN v ELSE f[y]]

\* Controller::new (controller.rs:68-70): the settings are those of the
\* registry and there is no TdpModel yet.  aux.hw is the limit of the chip,
\* aux.fg the application in the foreground ("none": it cannot be told).
\* History: aux.prior, the limits in effect up to the tick that began to
\* force an application's limit; aux.seenHw, the limits in effect so far;
\* aux.failed, a call of RyzenAdj has failed; aux.last, the last command.
InitTdp ==
  /\ NoRtss
  /\ \E reg \in Registries, hw \in TdpOptions :
       aux = [settings |-> load(reg), reg |-> reg,
              tdp |-> [some |-> FALSE, value |-> [ok |-> FALSE, v |-> 0],
                       applications |-> <<>>, state |-> TdpTracking],
              hw |-> hw, fg |-> "none", panicked |-> FALSE,
              exited |-> FALSE,
              prior |-> {}, seenHw |-> {hw}, failed |-> FALSE,
              last |-> [cmd |-> "none", app |-> ""]]

\* refresh_tdp: the target and the new state (controller.rs:175-203).
refresh_state(old_state, app_limit, setting, value) ==
  IF app_limit # {}
    THEN [target |-> app_limit,
          state |-> CASE old_state.tag = "ForcingApplication" -> old_state
                      [] old_state.tag = "Forcing" -> ForcingApplication({})
                      [] old_state.tag = "Tracking" ->
                           ForcingApplication(IF value.ok THEN {value.v}
                                              ELSE {})]
  ELSE IF setting.tag = "Forcing"
    THEN [target |-> {setting.x}, state |-> TdpForcing]
  ELSE [target |-> IF old_state.tag = "ForcingApplication"
                     THEN old_state.fallback ELSE {},
        state |-> TdpTracking]

\* refresh_tdp: the recent applications (controller.rs:204-211).
refresh_applications(applications, fg_app) ==
  IF fg_app # {} /\ fg_app # {SelfPath}
       /\ \A k \in 1..Len(applications) : {applications[k]} # fg_app
    THEN LET pushed == <<CHOOSE a \in fg_app : TRUE>> \o applications
         IN  SubSeq(pushed, 1, Min(Len(pushed), MaxRecent))
    ELSE applications

\* on_timer's refresh of the TDP (controller.rs:160-230, 241) with a
\* RyzenAdj: get_table succeeds or fails, and so does set_all_limits when
\* it is called.
RefreshTdp ==
  /\ ~aux.panicked /\ ~aux.exited
  /\ \E read \in BOOLEAN, set \in BOOLEAN :
       LET value == IF read THEN [ok |-> TRUE, v |-> aux.hw]
                    ELSE [ok |-> FALSE, v |-> 0]
           fg_app == IF aux.fg = "none" THEN {} ELSE {aux.fg}
           app_limit == IF fg_app = {} THEN {}
                        ELSE get_app_limit(aux.settings, aux.fg)
           r == refresh_state(aux.tdp.state, app_limit, aux.settings.tdp,
                              value)
           calls == r.target # {} /\ value.ok /\ r.target # {value.v}
           target == CHOOSE x \in r.target : TRUE
           enters == r.state.tag = "ForcingApplication"
                       /\ aux.tdp.state.tag # "ForcingApplication"
           hw == IF calls /\ set THEN target ELSE aux.hw
       IN  /\ ~calls => set
           /\ aux' = [aux EXCEPT
                 !.tdp = [some |-> TRUE,
                          value |-> IF ~calls THEN value
                                    ELSE IF set THEN [ok |-> TRUE, v |-> target]
                                    ELSE [ok |-> FALSE, v |-> 0],
                          applications |->
                            refresh_applications(aux.tdp.applications, fg_app),
                          state |-> r.state],
                 !.hw = hw,
                 !.prior = IF enters THEN aux.seenHw ELSE @,
                 !.seenHw = @ \cup {hw},
                 !.failed = @ \/ ~read \/ ~set]
  /\ UNCHANGED <<shared, ever_updated, call, history, openCode, seen,
                 handled, failedBefore, lastSlot>>

\* Another application comes to the foreground.
ForegroundChange ==
  /\ ~aux.panicked /\ ~aux.exited
  /\ \E fg \in Apps \cup {SelfPath, "none"} :
       fg # aux.fg /\ aux' = [aux EXCEPT !.fg = fg]
  /\ UNCHANGED <<shared, ever_updated, call, history, openCode, seen,
                 handled, failedBefore, lastSlot>>

\* The limit of the chip changes without this program (the firmware, a
\* power plan).
ChipChange ==
  /\ ~aux.panicked /\ ~aux.exited
  /\ \E hw \in TdpOptions :
       hw # aux.hw /\ aux' = [aux EXCEPT !.hw = hw, !.seenHw = @ \cup {hw}]
  /\ UNCHANGED <<shared, ever_updated, call, history, openCode, seen,
                 handled, failedBefore, lastSlot>>

\* set_tdp_setting (settings.rs:185-205).
set_tdp_setting(a, tdp) ==
  [a EXCEPT !.reg.tdp = IF tdp.tag = "Forcing" THEN tdp.x ELSE 0,
            !.settings.tdp = tdp]

\* set_app_limit (settings.rs:154-172).
set_app_limit(a, app, limit) ==
  [a EXCEPT !.reg.apps = With(@, app, limit),
            !.settings.app_limits = With(@, app, limit)]

\* remove_app_limit (settings.rs:174-183): RegDeleteValueW answers
\* ERROR_FILE_NOT_FOUND for a value that does not exist, and every answer
\* but ERROR_SUCCESS is a panic.
remove_app_limit(a, app) ==
  IF app \in DOMAIN a.reg.apps
    THEN [a EXCEPT !.reg.apps = Without(@, app),
                   !.settings.app_limits = Without(@, app)]
    ELSE [a EXCEPT !.panicked = TRUE]

\* The commands the menu of the TDP icon holds (view.rs:157-197): for every
\* recent application "Default" and the limits, then "Just observe", the
\* limits, and "Exit".
MenuCommands ==
  {[cmd |-> "Observe", app |-> "", limit |-> 0],
   [cmd |-> "Exit", app |-> "", limit |-> 0]}
  \cup {[cmd |-> "SetTdp", app |-> "", limit |-> x] : x \in TdpOptions}
  \cup {[cmd |-> "ResetApplicationTdp", app |-> aux.tdp.applications[k],
         limit |-> 0] : k \in 1..Len(aux.tdp.applications)}
  \cup {[cmd |-> "SetApplicationTdp", app |-> aux.tdp.applications[k],
         limit |-> x] : k \in 1..Len(aux.tdp.applications), x \in TdpOptions}

\* Controller::on_command (controller.rs:249-268) for a command of the
\* menu.
OnCommand ==
  /\ ~aux.panicked /\ ~aux.exited /\ aux.tdp.some
  /\ \E c \in MenuCommands :
       LET a == [aux EXCEPT !.last = [cmd |-> c.cmd, app |-> c.app]]
       IN  aux' = CASE c.cmd = "Observe" -> set_tdp_setting(a, SettingTracking)
                    [] c.cmd = "ResetApplicationTdp" ->
                         remove_app_limit(a, c.app)
                    [] c.cmd = "SetApplicationTdp" ->
                         set_app_limit(a, c.app, c.limit)
                    [] c.cmd = "SetTdp" ->
                         set_tdp_setting(a, SettingForcing(c.limit))
                    [] c.cmd = "Exit" -> [a EXCEPT !.exited = TRUE]
  /\ UNCHANGED <<shared, ever_updated, call, history, openCode, seen,
                 handled, failedBefore, lastSlot>>

NextTdp == RefreshTdp \/ ForegroundChange \/ ChipChange \/ OnCommand

SpecTdp == InitTdp /\ [][NextTdp]_vars

\* ------------------------------------------------------------ the claims

\* from_file ran and both OS calls (MapViewOfFile, VirtualQuery) succeeded.
Validated == seen.result # NoResult /\ seen.mapErr = 0 /\ seen.queryErr = 0

\* C1: from_file decides by the first failing check, in this order: region
\* size below the header size gives UnexpectedMemoryLayout; else a signature
\* that is not the magic gives RtssV2NotRunning; else a version below
\* 0x0002000e gives RtssVersionNotSupported; else it succeeds.  The view is
\* mapped if and only if all three checks pass.
C1_FromFileOrder ==
  Validated =>
    /\ seen.size < HeaderSize => seen.result = UnexpectedMemoryLayout
    /\ (seen.size >= HeaderSize /\ seen.signature # <<83, 83, 84, 82>>)
         => seen.result = RtssV2NotRunning
    /\ (seen.size >= HeaderSize /\ seen.signature = <<83, 83, 84, 82>>
          /\ seen.version < 131086)
         => seen.result.tag = "RtssVersionNotSupported"
    /\ seen.result = Ok
         <=> (seen.size >= HeaderSize /\ seen.signature = <<83, 83, 84, 82>>
                /\ seen.version >= 131086)
    /\ pc # "done" => (view <=> seen.result = Ok)
    /\ seen.result # Ok => (pc \in {"ret", "done"} /\ outcome = seen.result)

\* from_file met a version below the minimum behind a valid size and
\* signature, and refused it.
C1_Witness ==
  /\ Validated /\ pc = "ret"
  /\ seen.size >= HeaderSize /\ seen.signature = RTSS_SIGNATURE
  /\ seen.version < RTSS_MIN_SUPPORTED_VERSION
  /\ outcome.tag = "RtssVersionNotSupported"

\* open_shared_memory or from_file failed in the call in progress.
OpenOrMapFailed ==
  \/ openCode > 0
  \/ (seen.result # NoResult /\ seen.result # Ok)

\* C2: in a cycle (update or teardown) in which open_shared_memory or
\* from_file fails, that error is what the call returns, no entry is read or
\* written, this process never changes the busy flag, and ever_updated keeps
\* the value it had before the call.
C2_FailureNoSideEffects ==
  OpenOrMapFailed =>
    /\ pc \in {"ret", "done"}
    /\ outcome = IF openCode > 0 THEN OpenError(openCode) ELSE seen.result
    /\ touched = {} /\ wrote = {}
    /\ busyOps = 0 /\ ~held
    /\ ever_updated = everAtCall

\* An update has returned RtssV2NotRunning because the segment is absent.
C2_Witness ==
  /\ pc = "done" /\ op = "update" /\ ~exists
  /\ openCode = ERROR_FILE_NOT_FOUND /\ outcome = RtssV2NotRunning

\* C3: open_shared_memory reports ERROR_FILE_NOT_FOUND as RtssV2NotRunning
\* and every other failure as WindowsError carrying it; it calls
\* OpenFileMappingW once per call, and the caller returns the same error.
C3_OpenErrors ==
  /\ opens <= 1
  /\ pc \notin {"idle", "open", "dropped"} => opens = 1
  /\ openCode > 0 =>
       /\ pc \in {"ret", "done"}
       /\ openCode = 2 => outcome = [tag |-> "RtssV2NotRunning", arg |-> <<>>]
       /\ openCode # 2 => outcome = [tag |-> "WindowsError", arg |-> <<openCode>>]

\* An update has returned the WindowsError of a failed open.
C3_Witness ==
  /\ pc = "done" /\ op = "update" /\ openCode = 5
  /\ outcome = WindowsError(5)


\* The owner field of an entry reads as the OwnershipMark "LilPowerMan": its
\* first eleven bytes are the mark and a zero byte, or the end of the buffer,
\* follows.
CarriesMark(e) ==
  /\ Len(e.osd_owner) >= 11
  /\ SubSeq(e.osd_owner, 1, 11) = <<76, 105, 108, 80, 111, 119, 101, 114, 77, 97, 110>>
  /\ Len(e.osd_owner) > 11 => e.osd_owner[12] = 0

\* The owner field of an entry reads as the empty string.
IsEmpty(e) == Len(e.osd_owner) = 0 \/ e.osd_owner[1] = 0

\* Every byte of an entry is zero.
AllZero(e) ==
  /\ \A k \in 1..Len(e.osd) : e.osd[k] = 0
  /\ \A k \in 1..Len(e.osd_owner) : e.osd_owner[k] = 0
  /\ \A k \in 1..Len(e.osd_ex) : e.osd_ex[k] = 0
  /\ \A k \in 1..Len(e.buffer) : e.buffer[k] = 0

\* The indices the scan is to visit: 1..entry_count-1.
Scanned == 1..(hdr.osd_arr_size - 1)

\* The header is that of a running server and every entry to visit lies
\* within the mapped region.
LayoutValid ==
  /\ hdr.signature = RTSS_SIGNATURE
  /\ hdr.osd_entry_size >= EntrySize
  /\ \A k \in Scanned :
       hdr.osd_arr_offset + (k + 1) * hdr.osd_entry_size <= viewSize

\* for_each_entry took the guard in the call in progress.
Locked == atLock # <<>>

\* The lowest index of a non-empty set of indices.
Lowest(S) == CHOOSE k \in S : \A j \in S : k <= j

\* C4: when an update writes an entry and some entry with an index in
\* 1..entry_count-1 carried the OwnershipMark, the entry written is the
\* lowest-indexed of these, also when entries at lower indices are empty; and
\* an update that gets to its end with such an entry does write it.
C4_PrefersOwned ==
  (op = "update" /\ pc \in {"unlock", "ret"} /\ Locked) =>
    LET owned == {k \in Scanned : CarriesMark(atLock[k])}
    IN  owned # {} =>
          /\ wrote \subseteq {Lowest(owned)}
          /\ outcome # NoEmptyOsdSlots
          /\ outcome \in {Ok, EntryOverflow} => wrote = {Lowest(owned)}

\* The example [owned_by_other, empty, owned_by_us, empty]: entry 2 written.
C4_Witness ==
  /\ op = "update" /\ pc = "unlock" /\ Locked
  /\ ~CarriesMark(atLock[0]) /\ ~IsEmpty(atLock[0])
  /\ IsEmpty(atLock[1]) /\ CarriesMark(atLock[2]) /\ IsEmpty(atLock[3])
  /\ wrote = {2}

\* C5: with a valid layout and no entry in 1..entry_count-1 that is empty or
\* carries the OwnershipMark, update returns NoEmptyOsdSlots, writes no
\* entry, leaves ever_updated as it was and has released the busy flag.
C5_NoEmptyOsdSlots ==
  (op = "update" /\ pc \in {"unlock", "ret", "done"} /\ Locked /\ LayoutValid
     /\ \A k \in Scanned : ~IsEmpty(atLock[k]) /\ ~CarriesMark(atLock[k])) =>
    /\ outcome = NoEmptyOsdSlots
    /\ wrote = {}
    /\ pc = "unlock" => entries = atLock
    /\ pc # "unlock" => (~held /\ (busy = 0 \/ otherHeld))
    /\ ever_updated = everAtCall

\* An update over three entries of other clients has returned
\* NoEmptyOsdSlots.
C5_Witness ==
  /\ op = "update" /\ pc = "done" /\ Locked /\ LayoutValid
  /\ hdr.osd_arr_size = MaxSlots
  /\ \A k \in Scanned : ~IsEmpty(atLock[k]) /\ ~CarriesMark(atLock[k])
  /\ outcome = NoEmptyOsdSlots /\ entries = atLock /\ busy = 0

\* C6: string_to_mem(s, buf), for a string of L bytes and a buffer of B
\* bytes, copies the first min(L, B) bytes of s to the start of buf, writes a
\* zero byte behind them exactly when L < B, leaves every later byte as it
\* was, and returns true exactly when L < B.
C6_StringToMem ==
  aux.done =>
    LET L == Len(aux.s)
        B == Len(aux.mem)
        copied == IF L < B THEN L ELSE B
    IN  /\ Len(aux.out.mem) = B
        /\ \A k \in 1..copied : aux.out.mem[k] = aux.s[k]
        /\ L < B => aux.out.mem[L + 1] = 0
        /\ \A k \in (L + 2)..B : aux.out.mem[k] = aux.mem[k]
        /\ aux.out.fit <=> L < B

\* A string exactly as long as the buffer: the buffer is filled to capacity
\* and the result says that it did not fit.
C6_Witness ==
  /\ aux.done
  /\ Len(aux.s) = Len(aux.mem) /\ Len(aux.s) > 0
  /\ aux.out.mem = aux.s /\ aux.mem # aux.s
  /\ ~aux.out.fit

\* C7: the busy flag this process set to 1 is stored back to 0 before the
\* call returns, whatever the outcome: inside for_each_entry the guard of
\* this process is alive and busy is 1, and when for_each_entry has returned
\* (with Ok, RtssV2NotRunning, UnexpectedMemoryLayout, NoEmptyOsdSlots or
\* EntryOverflow) the guard is gone, busy is 0 and the writes of this process
\* to busy came in pairs.
C7_LockBalanced ==
  /\ pc \in {"check", "scan", "finalize", "unlock"} =>
       (Locked /\ held /\ busy = 1 /\ busyOps % 2 = 1)
  /\ (pc \in {"ret", "done"} /\ Locked) =>
       /\ outcome.tag \in {"Ok", "RtssV2NotRunning", "UnexpectedMemoryLayout",
                           "NoEmptyOsdSlots", "EntryOverflow"}
       /\ ~held
       /\ busy = 0
       /\ busyOps >= 2 /\ busyOps % 2 = 0

\* The bounds check failed in the middle of the scan, and the guard has been
\* released.
C7_Witness ==
  /\ pc = "ret" /\ Locked /\ touched # {}
  /\ outcome = UnexpectedMemoryLayout
  /\ busy = 0 /\ ~held

\* The digits of a decimal numeral without sign: at least one digit, and
\* no leading zero but for "0" itself.
IsNumeral(str) ==
  /\ Len(str) > 0
  /\ \A k \in 1..Len(str) : str[k] \in 48..57
  /\ Len(str) > 1 => str[1] # 48

\* The number a numeral stands for.
RECURSIVE ValueOf(_)
ValueOf(str) ==
  IF Len(str) = 0 THEN 0
  ELSE 10 * ValueOf(SubSeq(str, 1, Len(str) - 1)) + (str[Len(str)] - 48)

\* C8: when the region is large enough, the signature is the magic and the
\* version v is below 0x0002000e, the call returns RtssVersionNotSupported
\* with the string "<v >> 16>.<v & 0xFFFF>", both numbers in decimal
\* (0x00020005 gives "2.5"), and no entry is read or written.
C8_VersionNotSupported ==
  (Validated /\ seen.size >= HeaderSize /\ seen.signature = <<83, 83, 84, 82>>
     /\ seen.version < 131086) =>
    /\ seen.result.tag = "RtssVersionNotSupported"
    /\ LET str == seen.result.arg
           dots == {k \in 1..Len(str) : str[k] = 46}
       IN  /\ Cardinality(dots) = 1
           /\ LET d == CHOOSE k \in dots : TRUE
                  major == SubSeq(str, 1, d - 1)
                  minor == SubSeq(str, d + 1, Len(str))
              IN  /\ IsNumeral(major) /\ IsNumeral(minor)
                  /\ ValueOf(major) = seen.version \div 65536
                  /\ ValueOf(minor) = seen.version % 65536
    /\ seen.version = 131077 => seen.result.arg = <<50, 46, 53>>
    /\ pc \in {"ret", "done"} /\ outcome = seen.result
    /\ touched = {} /\ wrote = {} /\ ~Locked

\* An update against a server of version 0x00020005 has returned "2.5".
C8_Witness ==
  /\ op = "update" /\ pc = "done" /\ seen.version = 131077
  /\ seen.size >= HeaderSize /\ seen.signature = RTSS_SIGNATURE
  /\ outcome = [tag |-> "RtssVersionNotSupported", arg |-> <<50, 46, 53>>]

\* C9: when an entry in 1..entry_count-1 carried the OwnershipMark as the
\* update took the guard, an update that succeeds has replaced the extended
\* text of the lowest such entry by the new content and its terminator, the
\* owner of that entry still reads as the OwnershipMark, and its other
\* fields are as they were.
C9_RewritesOwned ==
  (op = "update" /\ pc \in {"unlock", "ret"} /\ Locked /\ outcome = Ok) =>
    LET owned == {k \in Scanned : CarriesMark(atLock[k])}
    IN  owned # {} =>
          LET k == Lowest(owned)
          IN  /\ CarriesMark(entries[k])
              /\ Len(osd) < Len(entries[k].osd_ex)
              /\ SubSeq(entries[k].osd_ex, 1, Len(osd)) = osd
              /\ entries[k].osd_ex[Len(osd) + 1] = 0
              /\ entries[k].osd = atLock[k].osd
              /\ entries[k].buffer = atLock[k].buffer

\* Entry 2 was ours with stale text; the update has put the new text there.
C9_Witness ==
  /\ op = "update" /\ pc = "unlock" /\ outcome = Ok /\ Locked
  /\ atLock[2] = StaleEntry /\ ~CarriesMark(atLock[1])
  /\ entries[2].osd_ex # atLock[2].osd_ex
  /\ entries[2].osd_owner = atLock[2].osd_owner

\* C10: the teardown after a successful update, against a running server
\* with a valid layout, succeeds and leaves every entry in 1..entry_count-1
\* that carried the OwnershipMark all zero, so that its owner is no longer
\* the mark; every entry whose owner was not the mark is byte for byte as it
\* was when the guard was taken.
C10_TeardownClears ==
  (op = "unregister" /\ pc \in {"unlock", "ret"} /\ Locked /\ LayoutValid) =>
    /\ everAtCall
    /\ outcome = Ok
    /\ \A k \in Scanned :
         CarriesMark(atLock[k]) => (AllZero(entries[k]) /\ ~CarriesMark(entries[k]))
    /\ \A k \in Slots : ~CarriesMark(atLock[k]) => entries[k] = atLock[k]
    /\ \A k \in Slots \ Scanned : entries[k] = atLock[k]

\* The teardown has cleared the entry this process had claimed, next to an
\* entry of another client that it left alone.
C10_Witness ==
  /\ op = "unregister" /\ pc = "ret" /\ Locked /\ LayoutValid /\ outcome = Ok
  /\ \E k \in Scanned : CarriesMark(atLock[k]) /\ AllZero(entries[k])
  /\ \E k \in Scanned :
       ~CarriesMark(atLock[k]) /\ ~IsEmpty(atLock[k]) /\ entries[k] = atLock[k]

\* The indices of the entries whose owner reads as the OwnershipMark.
Marked == {k \in Slots : CarriesMark(entries[k])}

\* C11: when no entry carried the OwnershipMark to begin with and no other
\* participant writes it, at most one entry carries the OwnershipMark in
\* every state any sequence of updates and the teardown can reach.
C11_AtMostOneMark == Cardinality(Marked) <= 1

\* An update has written the entry it had claimed before, passing over an
\* empty entry at a lower index, and this entry alone carries the mark.
C11_Witness ==
  /\ op = "update" /\ pc = "unlock" /\ Locked /\ outcome = Ok
  /\ \E k \in wrote :
       /\ CarriesMark(atLock[k])
       /\ \E j \in 1..(k - 1) : IsEmpty(atLock[j])
       /\ Marked = {k}

\* The entry at index k, as the header declares it, ends within the mapped
\* region.
Fits(k) == hdr.osd_arr_offset + (k + 1) * hdr.osd_entry_size <= viewSize

\* The indices to visit whose entry does not.
Beyond == {k \in Scanned : ~Fits(k)}

\* C12: the scan hands an entry to process or finalize only if
\* offset + (i+1)*entry_size is at most the size of the mapped region; no
\* entry at or behind the first index for which this fails is read or
\* written; a scan that fails on the bounds fails at that first index, having
\* visited every index before it; and a scan that is not stopped before that
\* index (by an entry update re-claims) returns UnexpectedMemoryLayout.
C12_BoundedScan ==
  (Locked /\ pc \in {"scan", "finalize", "unlock", "ret"}) =>
    /\ \A k \in touched \cup wrote : Fits(k)
    /\ Beyond # {} => \A k \in touched \cup wrote : k < Lowest(Beyond)
    /\ (pc \in {"unlock", "ret"} /\ outcome = UnexpectedMemoryLayout
          /\ hdr.osd_entry_size >= EntrySize) =>
         /\ Beyond # {}
         /\ idx = Lowest(Beyond)
         /\ touched = 1..(idx - 1)
    /\ (pc \in {"unlock", "ret"} /\ Beyond # {}
          /\ outcome # RtssV2NotRunning
          /\ \A k \in 1..(Lowest(Beyond) - 1) :
               ~(op = "update" /\ CarriesMark(atLock[k]))) =>
         outcome = UnexpectedMemoryLayout

\* An unregistration has visited the entries that lie within the region and
\* has failed at the first one that does not.
C12_Witness ==
  /\ op = "unregister" /\ pc = "unlock" /\ Locked
  /\ outcome = UnexpectedMemoryLayout
  /\ idx >= 2 /\ touched = 1..(idx - 1) /\ ~Fits(idx) /\ Fits(idx - 1)

\* C13: every step in which this process reads or writes an entry (the scan
\* handing it to process, finalize writing owner and text, unregister
\* zeroing it) is taken while the guard of this process is alive and busy
\* is 1 by its own compare-exchange, and leaves it so; this holds for the
\* step of finalize in particular.
C13_AccessUnderLock ==
  [][ ( \/ ~(touched' \subseteq touched)
        \/ ~(wrote' \subseteq wrote)
        \/ (entries' # entries /\ ~otherHeld /\ exists')
        \/ (pc = "finalize" /\ pc' # pc) )
      => ( /\ Locked /\ held /\ busy = 1 /\ ~otherHeld
           /\ held' /\ busy' = 1 /\ ~otherHeld' ) ]_vars

\* finalize has written owner and text into an entry and the guard is
\* still held.
C13_Witness ==
  /\ pc = "unlock" /\ op = "update" /\ held /\ busy = 1 /\ ~otherHeld
  /\ wrote # {} /\ entries # atLock

\* The participants inside their critical section.
Inside == {p \in Procs : aux.at[p] = "in"}

\* C14: with any number of participants that enter the critical section
\* only by a successful compare-exchange of busy from 0 to 1 and store 0
\* only when they leave it, at most one participant is inside at any time,
\* under every interleaving, and busy is 1 exactly while one is.
C14_MutualExclusion ==
  /\ Cardinality(Inside) <= 1
  /\ busy = 1 <=> Inside # {}
  /\ busy \in {0, 1}

\* This process is inside for the second time while every other
\* participant spins.
C14_Witness ==
  /\ Inside = {1} /\ aux.turns[1] = 1 /\ busy = 1
  /\ \A p \in Procs \ {1} : aux.at[p] = "spin"

\* C15: when Rtss::update has returned, with Ok or with any error, this
\* process holds nothing of the cycle: no guard (busy is 1 only if another
\* participant holds it), no mapped view, no handle; and each call starts
\* without them and opens, maps and locks anew.
C15_NothingHeld ==
  /\ pc \in {"done", "idle", "dropped", "open"} =>
       /\ ~held /\ ~view /\ ~handle
       /\ busy = 1 => otherHeld
  /\ pc = "open" => (opens = 0 /\ busyOps = 0 /\ ~Locked)
  /\ pc \in {"fps_lock", "fps", "lock", "check", "scan", "finalize", "unlock"}
       => (handle /\ view /\ opens = 1)
  /\ pc \in {"check", "scan", "finalize", "unlock"}
       => (held /\ busyOps = IF op = "update" THEN 3 ELSE 1)

\* An update has returned EntryOverflow, after it had the handle, the view
\* and the guard, and holds none of them.
C15_Witness ==
  /\ op = "update" /\ pc = "done" /\ outcome = EntryOverflow
  /\ opens = 1 /\ busyOps = 4
  /\ ~held /\ ~view /\ ~handle /\ busy = 0

\* C16: ever_updated is false at construction; it changes only when an
\* update returns Ok, and then to true; it is never reset; a failing update
\* and the teardown leave it as it is; Drop starts the release cycle if and
\* only if it is true.
C16_EverUpdated ==
  /\ ~ever_updated
  /\ [][ /\ ever_updated => ever_updated'
         /\ ever_updated' # ever_updated =>
              (pc = "ret" /\ op = "update" /\ outcome = Ok)
         /\ (pc = "ret" /\ pc' = "done" /\ op = "update" /\ outcome = Ok)
              => ever_updated'
         /\ (pc = "ret" /\ pc' = "done" /\ ~(op = "update" /\ outcome = Ok))
              => ever_updated' = ever_updated
         /\ (pc = "idle" /\ pc' = "open" /\ op' = "unregister") => ever_updated
         /\ (pc = "idle" /\ pc' = "dropped") => ~ever_updated
         /\ (pc = "idle" /\ pc' = "open" /\ op' = "update") => op = "update"
       ]_vars

\* The first update that succeeded has returned and the flag is set.
C16_Witness ==
  /\ op = "update" /\ pc = "done" /\ outcome = Ok
  /\ ever_updated /\ ~everAtCall

\* C17: the teardown never passes an error on and always completes: whatever
\* unregister returned (Ok, RtssV2NotRunning, a version, layout or OS error),
\* Drop for Rtss ends; Ok and RtssV2NotRunning leave no trace and every other
\* error is logged, nothing more; a Drop that has nothing to release does
\* nothing.
C17_TeardownCompletes ==
  /\ [] /\ handled \in {"none", "ignore", "log"}
        /\ pc # "dropped" => handled = "none"
        /\ (pc = "dropped" /\ ~ever_updated) => handled = "none"
        /\ (pc = "dropped" /\ ever_updated) => handled \in {"ignore", "log"}
  /\ [][ (pc = "done" /\ op = "unregister" /\ pc' # pc) =>
           /\ pc' = "dropped"
           /\ outcome.tag \in {"Ok", "RtssV2NotRunning"} => handled' = "ignore"
           /\ outcome.tag \in {"RtssVersionNotSupported", "WindowsError",
                               "UnexpectedMemoryLayout"} => handled' = "log"
           /\ outcome.tag \in {"Ok", "RtssV2NotRunning", "WindowsError",
                               "RtssVersionNotSupported",
                               "UnexpectedMemoryLayout"}
       ]_vars

\* Drop for Rtss has ended after unregister failed with an OS error, which
\* it logged.
C17_Witness ==
  /\ pc = "dropped" /\ ever_updated /\ handled = "log"
  /\ ~handle /\ ~view /\ ~held

\* C18: unregistration never stops early: an unregister that returns Ok has
\* visited every index in 1..entry_count-1 and zeroed exactly the entries
\* whose owner was the OwnershipMark, duplicates included; afterwards no
\* entry in that range carries the mark and every entry with another owner
\* is as it was.
C18_UnregisterVisitsAll ==
  (op = "unregister" /\ pc \in {"unlock", "ret"} /\ Locked /\ outcome = Ok) =>
    /\ touched = Scanned
    /\ wrote = {k \in Scanned : CarriesMark(atLock[k])}
    /\ \A k \in wrote : AllZero(entries[k])
    /\ \A k \in Scanned : ~CarriesMark(entries[k])
    /\ \A k \in Slots \ wrote : entries[k] = atLock[k]

\* An unregister has cleared two entries that both carried the mark, the
\* second behind an entry it left alone.
C18_Witness ==
  /\ op = "unregister" /\ pc = "unlock" /\ outcome = Ok /\ Locked
  /\ Cardinality(wrote) >= 2
  /\ \E j \in Scanned \ wrote : \E k \in wrote : j < k

\* The buffer holds a beginning of the string s and a zero byte behind it,
\* within its bounds.
Terminated(buf, s) ==
  \E j \in 1..Len(buf) :
    /\ buf[j] = 0
    /\ j - 1 <= Len(s)
    /\ \A i \in 1..(j - 1) : buf[i] = s[i]

\* C19: whenever a write is reported as EntryOverflow, every buffer that was
\* written (the owner buffer, and the extended-text buffer, which is written
\* when the owner fit) holds the content that was cut and a zero terminator
\* behind it within its bounds.
C19_OverflowTerminated ==
  (op = "update" /\ pc \in {"unlock", "ret"} /\ Locked
     /\ outcome = EntryOverflow) =>
    \A k \in wrote :
      /\ Terminated(entries[k].osd_owner,
                    <<76, 105, 108, 80, 111, 119, 101, 114, 77, 97, 110>>)
      /\ Terminated(entries[k].osd_ex, osd)

\* C20: whenever a cycle, update or unregistration, ends with
\* UnexpectedMemoryLayout, no partial write has occurred: this process wrote
\* no entry, and every entry is byte for byte as it was when the cycle took
\* the guard.
C20_LayoutErrorNoWrite ==
  (pc \in {"unlock", "ret"} /\ outcome = UnexpectedMemoryLayout) =>
    /\ wrote = {}
    /\ Locked => entries = atLock

\* C21: entry 0 is never claimed: in every update and every unregistration,
\* whatever entry_count is (0 and 1 included), entry 0 is neither handed to
\* process or finalize nor written, and is as it was when the guard was
\* taken; with entry_count at most 1 the scan visits no entry at all.
C21_SlotZeroReserved ==
  /\ 0 \notin touched \cup wrote
  /\ (Locked /\ pc \in {"check", "scan", "finalize", "unlock"})
       => entries[0] = atLock[0]
  /\ (Locked /\ hdr.osd_arr_size <= 1) =>
       /\ touched = {} /\ wrote = {}
       /\ pc \in {"check", "scan", "finalize", "unlock"} => entries = atLock
       /\ pc = "scan" => idx >= hdr.osd_arr_size

\* With entry_count 1 and an entry 0 that carries the mark, the update has
\* found no entry to claim and visited none.
C21_Witness ==
  /\ op = "update" /\ pc = "unlock" /\ Locked
  /\ hdr.osd_arr_size = 1 /\ hdr.signature = RTSS_SIGNATURE
  /\ CarriesMark(atLock[0])
  /\ outcome = NoEmptyOsdSlots /\ touched = {} /\ entries = atLock

\* The entry a fresh instance claims among those the scan is to visit: the
\* lowest that carried the mark when the guard was taken or, when none did,
\* the lowest that was empty.
FreshTarget ==
  LET owned == {k \in Scanned : CarriesMark(atLock[k])}
      free == {k \in Scanned : IsEmpty(atLock[k])}
  IN  IF owned # {} THEN {Lowest(owned)}
      ELSE IF free # {} THEN {Lowest(free)}
      ELSE {}

\* C22: failures do not persist across ticks: whatever updates of this
\* instance failed before, the controller can call update again once a call
\* has returned; and an update that finds the server present and valid, has
\* taken the guard and finds an entry that is free or its own, with a text
\* that fits, returns Ok and writes the entry a fresh instance would write,
\* whether or not earlier updates failed.
C22_FailuresDoNotPersist ==
  /\ (pc = "idle" /\ failedBefore) => ENABLED CallUpdate
  /\ (op = "update" /\ pc \in {"unlock", "ret"} /\ Locked /\ LayoutValid
        /\ FreshTarget # {} /\ Len(osd) < OsdExLen) =>
       /\ outcome = Ok
       /\ wrote = FreshTarget
       /\ pc = "ret" => (busy = 0 /\ ~held)
  /\ (op = "update" /\ pc = "done" /\ outcome = Ok) => ever_updated

\* An update has succeeded for the first time after an earlier update of the
\* same instance had failed.
C22_Witness ==
  /\ op = "update" /\ pc = "ret" /\ Locked /\ LayoutValid
  /\ failedBefore /\ ~ever_updated
  /\ outcome = Ok /\ wrote = FreshTarget /\ wrote # {}

\* The greater of two numbers.
Max(a, b) == IF a > b THEN a ELSE b

\* C23 as it is stated: when every other participant that takes busy stores
\* 0 in the end and the attempts of this process are scheduled again and
\* again, an acquisition that has begun succeeds.
C23_AcquisitionSucceeds == (pc \in {"fps_lock", "lock"}) ~> held

\* C23, amended: the acquisition is left only by a compare-exchange of busy
\* from 0 to 1 that succeeds; a cycle hands at most entry_count-1 entries to
\* process, each scan step a further one; and when, besides, an attempt of
\* this process meets busy at 0 whenever busy is 0 again and again (strong
\* fairness of the successful compare-exchange), every cycle that has begun
\* returns.
C23_LockLiveness ==
  /\ [][ (pc \in {"fps_lock", "lock"} /\ pc' # pc) =>
           (busy = 0 /\ busy' = 1 /\ ~held /\ held') ]_vars
  /\ [][ (pc = "scan" /\ pc' = "scan" /\ <<idx, touched>>' # <<idx, touched>>)
           => (idx' = idx + 1 /\ idx \notin touched /\ idx \in touched') ]_vars
  /\ [](Locked => /\ Cardinality(touched) <= Max(hdr.osd_arr_size - 1, 0)
                  /\ pc = "scan" => idx = Cardinality(touched) + 1)
  /\ (SF_vars(GetFpsLock) /\ SF_vars(Lock)) => ((pc = "open") ~> (pc = "done"))

\* This process has taken the guard after an attempt of it had failed, and
\* has scanned every entry there is.
C23_Witness ==
  /\ aux.tries = 1 /\ held /\ pc = "finalize" /\ Locked
  /\ Cardinality(touched) = hdr.osd_arr_size - 1 /\ hdr.osd_arr_size > 2

\* C24: a comparison of two Versioned values whose versions differ answers
\* whether their contents are equal; a clone equals its origin; after
\* deref_mut with the contents unchanged the two are still equal; after a
\* mutation that makes the contents differ they are unequal; and they are
\* equal again once the contents coincide.  In short: == answers true
\* exactly when the contents are equal.
C24_EqualByContents ==
  /\ (aux.bumps["a"] = 0 /\ aux.bumps["b"] = 0) => aux.a = aux.b
  /\ aux.cmp.done =>
       LET l == aux[aux.cmp.l]
           r == aux[aux.cmp.r]
       IN  /\ l.version # r.version => (aux.cmp.res <=> l.inner = r.inner)
           /\ l.inner = r.inner => aux.cmp.res
           /\ l.inner # r.inner => ~aux.cmp.res

\* C25: the comparison is lazy: a clone and its origin with no deref_mut on
\* either, after any number of derefs, share a version; while two values
\* share a version == answers true without invoking the PartialEq of the
\* contents; a deref_mut on either of two values that share a version leaves
\* them with versions that differ; and when the versions differ == invokes
\* the PartialEq of the contents of its left operand.
C25_LazyComparison ==
  /\ [] /\ (aux.bumps["a"] = 0 /\ aux.bumps["b"] = 0)
             => aux.a.version = aux.b.version
        /\ (aux.bumps["a"] + aux.bumps["b"] = 1 /\ ~aux.panicked)
             => aux.a.version # aux.b.version
        /\ aux.cmp.done =>
             /\ aux[aux.cmp.l].version = aux[aux.cmp.r].version
                  => (aux.cmp.res /\ aux.cmp.invoked = "none")
             /\ aux[aux.cmp.l].version # aux[aux.cmp.r].version
                  => aux.cmp.invoked = aux.cmp.l
  /\ [][ (aux.a.version = aux.b.version /\ aux'.bumps # aux.bumps
            /\ aux'.bumps # [x \in {"a", "b"} |-> 0] /\ ~aux'.panicked)
           => aux'.a.version # aux'.b.version ]_vars

\* After derefs and one deref_mut on a, b == a has invoked the PartialEq of
\* the contents of b, its left operand.
C25_Witness ==
  /\ aux.cmp.done /\ aux.cmp.l = "b" /\ aux.cmp.r = "a"
  /\ aux.bumps["a"] = 1 /\ aux.bumps["b"] = 0 /\ aux.derefs > 0
  /\ aux.a.version # aux.b.version
  /\ aux.cmp.invoked = "b" /\ aux.cmp.res

\* The existing log files init looks at for the counter: the MaxLogFiles-1
\* with the greatest names.
Considered ==
  {f \in aux.before :
     Cardinality({g \in aux.before :
                    \/ g.date > f.date
                    \/ (g.date = f.date
                          /\ \E k \in 1..3 :
                               /\ g.counter[k] > f.counter[k]
                               /\ \A j \in 1..(k - 1) : g.counter[j] = f.counter[j])})
       < MaxLogFiles - 1}

\* A counter of three decimal digits, and its number.
IsCounter(c) == \A k \in 1..3 : c[k] \in 48..57
CounterValue(c) == 100 * (c[1] - 48) + 10 * (c[2] - 48) + (c[3] - 48)

\* The three digits of a number below 1000.
ThreeDigits(n) == <<48 + (n \div 100), 48 + ((n \div 10) % 10), 48 + (n % 10)>>

\* C26: the file FileLogger::init creates is named for the current date,
\* with the counter 000 when none of the existing files considered carries
\* today's prefix with a numeric counter, and else one more than the
\* greatest numeric counter among today's files, 999 wrapping to 000; files
\* of other dates and files whose counter is not numeric are ignored.
C26_LogFileName ==
  aux.done =>
    LET todays == {f \in Considered : f.date = 20250510 /\ IsCounter(f.counter)}
        values == {CounterValue(f.counter) : f \in todays}
        greatest == CHOOSE v \in values : \A w \in values : w <= v
    IN  /\ aux.name.date = 20250510
        /\ aux.name.counter =
             IF todays = {} THEN <<48, 48, 48>>
             ELSE ThreeDigits((greatest + 1) % 1000)
        /\ aux.ok => (aux.name \in aux.files /\ aux.file)

\* C27: after FileLogger::init over any set of existing log files, when no
\* deletion failed, the existing files that remain are the MaxLogFiles-1
\* with the greatest names and every older one was deleted, so that with the
\* file init created at most MaxLogFiles log files exist.
C27_OldLogsDeleted ==
  (aux.done /\ aux.locked = {}) =>
    /\ aux.attempted = aux.before \ Considered
    /\ aux.files \ {aux.name} = Considered \ {aux.name}
    /\ \A f \in aux.before \ Considered :
         /\ f \notin aux.files \/ (f = aux.name /\ aux.ok)
         /\ \A g \in Considered : g.date > f.date \/ g.date = f.date
    /\ Cardinality(Considered) <= MaxLogFiles - 1
    /\ Cardinality(aux.before) >= MaxLogFiles - 1
         => Cardinality(Considered) = MaxLogFiles - 1
    /\ Cardinality(aux.files) <= MaxLogFiles

\* Two files more than are kept existed; init has deleted them and created
\* a file, and MaxLogFiles files exist.
C27_Witness ==
  /\ aux.done /\ aux.locked = {} /\ aux.ok
  /\ Cardinality(aux.before) = MaxLogFiles + 1
  /\ Cardinality(aux.attempted) = 2
  /\ aux.attempted \cap aux.files = {}
  /\ Cardinality(aux.files) = MaxLogFiles

\* C28: a failure to delete an old log file does not fail FileLogger::init:
\* the file that could not be deleted remains, the other deletions are
\* still attempted and done, the name chosen for the new log file is the
\* one it would have had with every deletion succeeding, and an init that
\* would have succeeded then succeeds: the new file is created and holds
\* the records logged.
C28_DeleteFailureTolerated ==
  (aux.done /\ aux.locked # {}) =>
    /\ aux.locked \subseteq aux.files
    /\ aux.attempted = aux.before \ Considered
    /\ \A f \in aux.attempted \ aux.locked : f \notin aux.files \/ f = aux.name
    /\ aux.name = new_log_file(aux.before, {}).name
    /\ new_log_file(aux.before, {}).created =>
         /\ aux.ok
         /\ aux.name \in aux.files /\ aux.file
         /\ aux.buffer = <<>>
         /\ aux.content = [k \in 1..aux.logged |-> k]

\* C29: when no entry in 1..entry_count-1 carried the OwnershipMark as the
\* update took the guard and at least one was empty, the entry the update
\* claims is the lowest-indexed empty one: while it scans, what it remembers
\* is the lowest empty entry visited so far, never a later one; it writes
\* no other entry; and the entries of other clients are as they were.
C29_LowestEmptyClaimed ==
  (op = "update" /\ Locked /\ pc \in {"scan", "finalize", "unlock", "ret"}) =>
    LET owned == {k \in Scanned : CarriesMark(atLock[k])}
        free == {k \in Scanned : IsEmpty(atLock[k])}
        visited == free \cap touched
    IN  (owned = {} /\ free # {}) =>
          /\ pc \in {"scan", "finalize"} =>
               remembered = IF visited = {} THEN {} ELSE {Lowest(visited)}
          /\ wrote \subseteq {Lowest(free)}
          /\ (pc \in {"unlock", "ret"} /\ outcome \in {Ok, EntryOverflow})
               => wrote = {Lowest(free)}
          /\ pc \in {"scan", "finalize", "unlock"} =>
               \A k \in Slots \ {Lowest(free)} : entries[k] = atLock[k]
          /\ \A k \in wrote : IsEmpty(atLock[k])

\* With no entry of its own, the update has claimed the lower of two empty
\* entries, behind an entry of another client.
C29_Witness ==
  /\ op = "update" /\ pc = "unlock" /\ Locked /\ outcome = Ok
  /\ \A k \in Scanned : ~CarriesMark(atLock[k])
  /\ \E j \in Scanned, k \in Scanned :
       /\ j < k /\ IsEmpty(atLock[j]) /\ IsEmpty(atLock[k])
       /\ wrote = {j} /\ CarriesMark(entries[j]) /\ entries[k] = atLock[k]
       /\ \E o \in 1..(j - 1) : ~IsEmpty(atLock[o]) /\ entries[o] = atLock[o]

\* C30: re-acquisition is idempotent: once an update of this instance has
\* succeeded on entry k, and while no other participant writes the owner of
\* entry k or the OwnershipMark anywhere (others claim and give up entries
\* of their own) and the segment stays, every later update that succeeds
\* writes entry k and no other, and k stays the one entry that carries the
\* OwnershipMark, also when entries at lower indices have become empty.
C30_IdempotentReacquisition ==
  /\ Cardinality(lastSlot) <= 1
  /\ lastSlot # {} =>
       /\ ever_updated
       /\ op = "update" => Marked = lastSlot
       /\ (op = "update" /\ Locked /\ pc # "done")
            => {k \in Slots : CarriesMark(atLock[k])} = lastSlot
       /\ wrote \subseteq lastSlot
       /\ (op = "update" /\ pc \in {"unlock", "ret"}
             /\ outcome \in {Ok, EntryOverflow}) => wrote = lastSlot
  /\ (op = "update" /\ pc = "done" /\ outcome = Ok)
       => (lastSlot = wrote /\ Cardinality(wrote) = 1 /\ Marked = wrote)

\* A later update has succeeded on the entry of the earlier success, though
\* an entry at a lower index had become empty.
C30_Witness ==
  /\ op = "update" /\ pc = "unlock" /\ Locked /\ outcome = Ok
  /\ everAtCall /\ lastSlot # {} /\ wrote = lastSlot
  /\ \E k \in lastSlot : \E j \in 1..(k - 1) :
       IsEmpty(atLock[j]) /\ IsEmpty(entries[j])

DotAt(t) ==
  IF \E k \in 1..Len(t) : t[k] = 46
    THEN CHOOSE k \in 1..Len(t) : t[k] = 46 /\ \A j \in 1..(k - 1) : t[j] # 46
    ELSE 0

IsDigits(str) == Len(str) > 0 /\ \A k \in 1..Len(str) : str[k] \in 48..57

\* C32: for every i32 charge_rate the first text update composes is a sign
\* (for a negative rate), the integer part, a dot and exactly three digits
\* of the fraction, followed by "<S=50>W<S>", and the number written is
\* charge_rate / 1000: counted in thousandths, it is charge_rate.
C32_RateText ==
  aux.done =>
    LET t == aux.text
        n == Len(t) - Len(WattMarkup)
        dot == DotAt(t)
        negative == t[1] = 45
        int == SubSeq(t, IF negative THEN 2 ELSE 1, dot - 1)
        frac == SubSeq(t, dot + 1, n)
    IN  /\ n >= 5
        /\ SubSeq(t, n + 1, Len(t)) = WattMarkup
        /\ dot = n - 3
        /\ IsDigits(int) /\ IsDigits(frac) /\ Len(frac) = 3
        /\ negative <=> aux.charge_rate < 0
        /\ IF negative
             THEN -(ValueOf(int) * 1000) - ValueOf(frac) = aux.charge_rate
             ELSE ValueOf(int) * 1000 + ValueOf(frac) = aux.charge_rate

\* This process is in SharedMemoryGuard::new.
Acquiring == pc \in {"fps_lock", "lock"}

\* C33: an update does not return while another participant holds busy:
\* in an acquisition that meets busy at 1 the compare-exchange that takes
\* the guard cannot happen and the one that fails can, no entry has been
\* handed to process or written and no result is decided; and every step
\* that leaves busy at 1 leaves this process in the acquisition, with no
\* result, and an attempt of this process changes no entry.  A holder that
\* never stores 0 so keeps the cycle from returning for ever.
C33_BlockedWhileBusy ==
  /\ []((Acquiring /\ busy = 1) =>
          /\ ~held /\ otherHeld
          /\ outcome = NoResult /\ touched = {} /\ wrote = {}
          /\ ENABLED LockSpin
          /\ ~ENABLED Lock /\ ~ENABLED GetFpsLock)
  /\ [][(Acquiring /\ busy = 1 /\ busy' = 1) =>
          /\ pc' = pc /\ ~held'
          /\ outcome' = NoResult /\ touched' = {} /\ wrote' = {}
          /\ aux' # aux => entries' = entries]_vars
  /\ []((Acquiring /\ []otherHeld) => [](Acquiring /\ outcome = NoResult))

\* An attempt of this process has failed on busy held by another
\* participant, which has written an entry meanwhile.
C33_Witness ==
  /\ Acquiring /\ busy = 1 /\ otherHeld
  /\ aux.tries = 1
  /\ entries # ExampleEntries

\* The header fails the checks for_each_entry makes under the guard.
HeaderStale == hdr.signature # RTSS_SIGNATURE
EntryTooSmall == hdr.osd_entry_size < EntrySize

\* C34: with the guard taken and before any entry is touched,
\* for_each_entry checks the header again: a signature that is no longer
\* the magic gives RtssV2NotRunning, and otherwise a declared entry size
\* below the size of the entry structure gives UnexpectedMemoryLayout,
\* whatever the entry count is; no entry is then handed to process or
\* written, and the guard is released before the call returns.
C34_Revalidation ==
  /\ [][(pc = "check" /\ pc' # "check") =>
          /\ held /\ touched = {} /\ wrote = {}
          /\ HeaderStale => (outcome' = RtssV2NotRunning /\ pc' = "unlock")
          /\ (~HeaderStale /\ EntryTooSmall) =>
               (outcome' = UnexpectedMemoryLayout /\ pc' = "unlock")
          /\ (HeaderStale \/ EntryTooSmall) =>
               (entries' = entries /\ touched' = {} /\ wrote' = {})]_vars
  /\ []((pc \in {"unlock", "ret", "done"} /\ atLock # <<>>
           /\ (outcome = RtssV2NotRunning \/ EntryTooSmall)) =>
          /\ outcome \in {RtssV2NotRunning, UnexpectedMemoryLayout}
          /\ touched = {} /\ wrote = {} /\ entries = atLock
          /\ held <=> pc = "unlock"
          /\ pc # "unlock" => (busy = 0 /\ busyOps % 2 = 0))

\* A call whose segment was valid when it was mapped has returned
\* RtssV2NotRunning from under the guard, with entries that carry the mark.
C34_Witness ==
  /\ pc = "ret" /\ atLock # <<>> /\ seen.result = Ok
  /\ outcome = RtssV2NotRunning
  /\ Marked # {}

\* The server runs, its layout is valid for the region and nobody holds
\* busy.
RunningAndFree ==
  /\ exists /\ busy = 0 /\ ~otherHeld
  /\ hdr.signature = RTSS_SIGNATURE
  /\ hdr.version >= RTSS_MIN_SUPPORTED_VERSION
  /\ hdr.osd_entry_size >= EntrySize
  /\ hdr.app_arr_offset + hdr.app_arr_size * hdr.app_entry_size <= regionSize
  /\ \A k \in Scanned :
       hdr.osd_arr_offset + (k + 1) * hdr.osd_entry_size <= regionSize

\* C35: the release is clean for every history: once Drop for Rtss has
\* ended against a running server with a valid layout and a free lock (and
\* no call of the operating system failed in it), no entry carries the
\* OwnershipMark, whatever the earlier updates of the instance returned.
C35_CleanRelease ==
  (pc = "dropped" /\ RunningAndFree /\ handled # "log") => Marked = {}

\* C36: for two Versioned values made by new, clone, deref and deref_mut,
\* whatever numbers are drawn for the versions, equal versions imply equal
\* contents, and so == answers true only when the contents are equal.
C36_VersionImpliesContents ==
  /\ aux.a.version = aux.b.version => aux.a.inner = aux.b.inner
  /\ (aux.cmp.done /\ aux.cmp.res) =>
       aux[aux.cmp.l].inner = aux[aux.cmp.r].inner

\* What the logger holds of the records: the file, then the buffer.
Kept == aux.content \o aux.buffer

C38_NoSelfDeadlock ==
  \A t \in Threads :
    /\ ~(aux.th[t].pc \in {"log_lock", "init_lock", "flush_lock"}
           /\ aux.owner = t)
    /\ aux.th[t].pc \notin {"deadlocked", "panicked"}

\* C39: whenever refresh_tdp takes the state from ForcingApplication to
\* Tracking, and no call of RyzenAdj has failed, the limit of the chip after
\* the refresh is one that was in effect before the application's limit
\* began to be forced, whether the episode began in Tracking or in Forcing.
C39_FallbackRestored ==
  [][(/\ aux.tdp.state.tag = "ForcingApplication"
      /\ aux'.tdp.state.tag = "Tracking"
      /\ ~aux'.failed) => aux'.hw \in aux.prior]_vars

\* C40: ResetApplicationTdp for an application without a stored limit
\* completes without a panic and leaves the settings in memory and in the
\* registry as they were.
C40_ResetWithoutLimit ==
  [][(/\ aux'.last.cmd = "ResetApplicationTdp"
      /\ get_app_limit(aux.settings, aux'.last.app) = {}
      /\ ~aux.panicked /\ ~aux.exited)
       => /\ ~aux'.panicked
          /\ aux'.settings = aux.settings
          /\ aux'.reg = aux.reg]_vars
====
